---- MODULE Spec2Model ----
(***************************************************************************)
(* Model of MVRtoKuma (vanous/uptime-kuma-mvr).                            *)
(*                                                                         *)
(*   SpecMerge : tui/merge_mvr.py, merger(): network data of a source show *)
(*               file fused into the fixtures of a target show file.       *)
(*   SpecTags  : tui/app.py, MVRtoKuma.run_api_create_tags(): creation of  *)
(*               the remote tags that the imported show data asks for.     *)
(*                                                                         *)
(* Python values: None is the string NoneVal; an optional object (the      *)
(* result of a function that returns an object or None) is a sequence of   *)
(* length 0 (None) or 1 (the object).                                      *)
(***************************************************************************)
EXTENDS Integers, Sequences, FiniteSets, TLC

VARIABLES
    in_file,        \* flattened fixtures of the source show file (in_path)
    out_file,       \* flattened fixtures of the target show file (out_path), as read
    in_fixtures,    \* merger: source fixtures not yet popped
    out_fixtures,   \* merger: target fixtures, mutated in place
    done_already,   \* merger: uuids of the target fixtures already matched
    copies,         \* merger: the calls of copy_network so far: [src, dst, rule]
    merged_file,    \* content of merged_with_network.mvr, <<>> until written
    merge_pc,       \* merger: "off" when not called, "loop" in the while-loop,
                    \* "written" after write_mvr
    mvr_classes,    \* MVRtoKuma.mvr_classes
    mvr_positions,  \* MVRtoKuma.mvr_positions
    mvr_fixtures,   \* MVRtoKuma.mvr_fixtures: the imported layers
    kuma_tags,      \* MVRtoKuma.kuma_tags: last fetched snapshot of the remote tags
    kuma_fixtures,  \* MVRtoKuma.kuma_fixtures: last fetched snapshot of the monitors
    toggles,        \* MVRtoKuma.layers_toggle, classes_toggle, positions_toggle
    checkboxes,     \* the three checkboxes of AddMonitorsScreen
    remote_tags,    \* the tags held by the Uptime Kuma service, as get_tags lists them
    remote_monitors,\* the monitors held by the service, as get_monitors lists them
    last_op,        \* the last worker other than run_api_get_data that has ended
    ops,            \* the number of workers other than run_api_get_data so far; with
                    \* the screens, the number of presses that started a worker
    api_calls,      \* mutation calls made on the api object by the last operation
    errors,         \* Errors messages posted by the last operation and by the
                    \* refresh that followed it, in order; with the screens, the
                    \* error that on_errors has put on the output widget
    conn,           \* how UptimeKumaApi(...) and login went: "none" before, then
                    \* "ok", "no_client" (constructor raised) or "login_failed"
    session,        \* "none": no api object; "closed": api object, disconnected
    app_pc,         \* "idle" before the operation, "finished" when its worker has ended
    request,        \* the arguments of the last run_api_add_tags_to_monitors
    workers,        \* the thread workers started and not yet reported finished
    inbox,          \* the messages posted to the app and not yet handled, in order
    ui,             \* the screen on top, the disabled flags of the three buttons,
                    \* and whether a username and a password are configured
    fetched         \* for each snapshot, whether it comes from a fetch made after
                    \* the last worker that changes the service has ended (TRUE
                    \* while no such worker has ended); installed: the snapshots
                    \* that a fetch of the session has installed

merge_vars == <<in_file, out_file, in_fixtures, out_fixtures, done_already,
                copies, merged_file, merge_pc>>
app_vars == <<mvr_classes, mvr_positions, mvr_fixtures, kuma_tags, kuma_fixtures,
              toggles, checkboxes, remote_tags, remote_monitors, last_op, ops,
              api_calls, errors, conn, session, app_pc,
              request, workers, inbox, ui, fetched>>
ui_vars == <<request, workers, inbox, ui, fetched>>
vars == <<in_file, out_file, in_fixtures, out_fixtures, done_already,
          copies, merged_file, merge_pc, mvr_classes, mvr_positions,
          mvr_fixtures, kuma_tags, kuma_fixtures, toggles, checkboxes,
          remote_tags, remote_monitors, last_op, ops,
          api_calls, errors, conn, session, app_pc,
          request, workers, inbox, ui, fetched>>

----------------------------------------------------------------------------
(* Bounds of the explored inputs.                                          *)

MaxIn == 2
MaxOut == 2
MaxMvrTags == 1
MaxKumaTags == 2
MaxLayerFixtures == 2
MaxOps == 2
MaxDelTags == 3
MaxLayers == 2
MaxKumaMonitors == 2
MaxReplaceMonitors == 2
MaxReplaceCalls == 2

\* The calls of a thread worker that may fail: none or the first.
MaxFailAt == 1

NoneVal == "None"

SeqsUpTo(S, n) == UNION {[1..k -> S] : k \in 0..n}

Range(s) == {s[i] : i \in 1..Len(s)}

\* Python truthiness of a str-or-None value (`if network.ipv4:`).
Truthy(v) == v # NoneVal /\ v # ""

----------------------------------------------------------------------------
(* tui/merge_mvr.py                                                        *)

Network(ip) == [ipv4 |-> ip]
Address(u, a) == [dmx_break |-> 0, universe |-> u, address |-> a]

\* A fixture as get_fixtures delivers it: the attributes merger reads, and
\* its name.  shape holds addresses.networks and addresses.addresses.
Fixture(uuid, name, shape) ==
    [uuid |-> uuid, name |-> name,
     networks |-> shape.networks, addresses |-> shape.addresses]

\* Fixtures of the source file.  A fixture without an ipv4 entry is skipped
\* before its other fields are read, so the uuid is varied only for the
\* fixtures that carry one.
InWithNetwork ==
    {Fixture(u, "scan", sh) :
        u \in {"", "A"},
        sh \in {[networks |-> <<Network("10.0.0.5")>>,
                 addresses |-> <<Address(1, 5)>>],
                [networks |-> <<Network(NoneVal), Network("10.0.0.9")>>,
                 addresses |-> <<Address(1, 5)>>],
                [networks |-> <<Network("10.0.0.5")>>,
                 addresses |-> <<>>]}}
InWithoutNetwork ==
    {Fixture("A", "scan", sh) :
        sh \in {[networks |-> <<>>, addresses |-> <<Address(1, 5)>>],
                [networks |-> <<Network(NoneVal)>>, addresses |-> <<Address(1, 5)>>]}}
InFixtureSet == InWithNetwork \cup InWithoutNetwork

\* Fixtures of the target file: without and with a DMX address, with an
\* ipv4 entry of their own, and with a DMX address in another universe.
OutFixtureSet ==
    {Fixture(u, "spot", sh) :
        u \in {"", "A", "B"},
        sh \in {[networks |-> <<>>, addresses |-> <<>>],
                [networks |-> <<>>, addresses |-> <<Address(1, 5)>>],
                [networks |-> <<Network("10.0.0.1")>>, addresses |-> <<Address(1, 5)>>],
                [networks |-> <<>>, addresses |-> <<Address(2, 5)>>]}}

SetMin(S) == CHOOSE m \in S : \A n \in S : m <= n

\* Mutant of get_ipv4_network: the first network entry, whatever its ipv4.
get_ipv4_network_any(fixture) ==
    IF fixture.networks = <<>> THEN <<>> ELSE <<fixture.networks[1]>>

\* The first network entry with a truthy ipv4, or None.
get_ipv4_network(fixture) ==
    LET hits == {i \in 1..Len(fixture.networks) : Truthy(fixture.networks[i].ipv4)}
    IN  IF hits = {} THEN <<>> ELSE <<fixture.networks[SetMin(hits)]>>

\* The first DMX address entry (an Address object is always truthy), or None.
get_address(fixture) ==
    IF fixture.addresses = <<>> THEN <<>> ELSE <<fixture.addresses[1]>>

address_equals(this, that) ==
    this.address = that.address /\ this.universe = that.universe

\* Mutant of copy_network: both branches assign to a local name only.
copy_network_rebind(in_ipv4_network, out_fixture) == out_fixture

\* Mutant of copy_network: the target gets a fresh addresses container that
\* holds the copied network entry and nothing else.
copy_network_fresh_addresses(in_ipv4_network, out_fixture) ==
    IF get_ipv4_network(out_fixture) = <<>>
    THEN [out_fixture EXCEPT !.networks = <<in_ipv4_network>>, !.addresses = <<>>]
    ELSE out_fixture

\* The else branch assigns the copy to the local name out_ipv4_network only:
\* the fixture's networks list is left as it is.
copy_network(in_ipv4_network, out_fixture) ==
    IF get_ipv4_network(out_fixture) = <<>>
    THEN [out_fixture EXCEPT !.networks = Append(@, in_ipv4_network)]
    ELSE out_fixture

\* Mutant of in_done_already: the consumed targets are not skipped.
in_done_already_never(done, out_fixture) == FALSE

\* merger, line 86: `if out_fixture.uuid in done_already`
in_done_already(done, out_fixture) ==
    \E k \in 1..Len(done) : done[k] = out_fixture.uuid

\* merger, line 88: `if in_fixture.uuid == out_fixture.uuid`
uuid_equals(in_fixture, out_fixture) == in_fixture.uuid = out_fixture.uuid

\* merger, lines 90-91 and 99-100: copy_network on target i, then
\* done_already.append(out_fixture.uuid).  st is the loop state
\* [out, done, copies]; in_idx is the position of the source fixture in the
\* flattened source list and rule the branch that matched.
match_target(st, i, in_idx, in_ipv4_network, rule) ==
    [out    |-> [st.out EXCEPT ![i] = copy_network(in_ipv4_network, st.out[i])],
     done   |-> Append(st.done, st.out[i].uuid),
     copies |-> Append(st.copies, [src |-> in_idx, dst |-> i, rule |-> rule])]

\* merger, lines 85-100: the for loop over out_fixtures from target i on, for
\* one source fixture that has an ipv4 network.  The uuid branch ends the
\* loop (break); the address branch goes on with the next target.
RECURSIVE for_out_fixture(_, _, _, _)
for_out_fixture(i, in_idx, in_fixture, st) ==
    IF i > Len(st.out) THEN st
    ELSE
      LET out_fixture == st.out[i]
          in_address == get_address(in_fixture)
          out_address == get_address(out_fixture)
          in_ipv4_network == get_ipv4_network(in_fixture)[1]
      IN  IF in_done_already(st.done, out_fixture)
          THEN for_out_fixture(i + 1, in_idx, in_fixture, st)
          ELSE IF uuid_equals(in_fixture, out_fixture)
          THEN match_target(st, i, in_idx, in_ipv4_network, "uuid")
          ELSE IF in_address = <<>> \/ out_address = <<>>
          THEN for_out_fixture(i + 1, in_idx, in_fixture, st)
          ELSE IF address_equals(in_address[1], out_address[1])
          THEN for_out_fixture(i + 1, in_idx, in_fixture,
                               match_target(st, i, in_idx, in_ipv4_network, "address"))
          ELSE for_out_fixture(i + 1, in_idx, in_fixture, st)

\* merger, lines 79-100: one iteration of `while in_fixtures`.
merge_one(in_idx, in_fixture, st) ==
    IF get_ipv4_network(in_fixture) = <<>>
    THEN st
    ELSE for_out_fixture(1, in_idx, in_fixture, st)

\* merger, lines 74-76: both files are read and flattened.
MergeInit ==
    /\ in_file \in SeqsUpTo(InFixtureSet, MaxIn)
    /\ out_file \in SeqsUpTo(OutFixtureSet, MaxOut)
    /\ in_fixtures = in_file
    /\ out_fixtures = out_file
    /\ done_already = <<>>
    /\ copies = <<>>
    /\ merged_file = <<>>
    /\ merge_pc = "loop"

\* Mutant of MergerIterate: the first source fixture of the list is taken.
MergerIterate_pops_first ==
    /\ merge_pc = "loop"
    /\ in_fixtures # <<>>
    /\ LET in_idx == Len(in_file) - Len(in_fixtures) + 1
           st == merge_one(in_idx, in_fixtures[1],
                           [out |-> out_fixtures, done |-> done_already,
                            copies |-> copies])
       IN  /\ in_fixtures' = Tail(in_fixtures)
           /\ out_fixtures' = st.out
           /\ done_already' = st.done
           /\ copies' = st.copies
    /\ UNCHANGED <<in_file, out_file, merged_file, merge_pc>>
    /\ UNCHANGED app_vars

\* merger, lines 78-100: in_fixtures.pop() and the work on the popped fixture.
MergerIterate ==
    /\ merge_pc = "loop"
    /\ in_fixtures # <<>>
    /\ LET in_idx == Len(in_fixtures)
           st == merge_one(in_idx, in_fixtures[in_idx],
                           [out |-> out_fixtures, done |-> done_already,
                            copies |-> copies])
       IN  /\ in_fixtures' = SubSeq(in_fixtures, 1, in_idx - 1)
           /\ out_fixtures' = st.out
           /\ done_already' = st.done
           /\ copies' = st.copies
    /\ UNCHANGED <<in_file, out_file, merged_file, merge_pc>>
    /\ UNCHANGED app_vars

\* merger, lines 102-106: the target scene is written to merged_with_network.mvr.
MergerWrite ==
    /\ merge_pc = "loop"
    /\ in_fixtures = <<>>
    /\ merged_file' = <<out_fixtures>>
    /\ merge_pc' = "written"
    /\ UNCHANGED <<in_file, out_file, in_fixtures, out_fixtures, done_already, copies>>
    /\ UNCHANGED app_vars

\* MVRtoKuma, lines 419-421: the class attributes of the three toggles.
DefaultToggles == [layers |-> TRUE, classes |-> TRUE, positions |-> TRUE]

\* run_api_add_tags_to_monitors not called yet.
NoRequest == [monitors |-> <<>>, tags |-> <<>>, ids |-> {}, selected |-> {}]

\* compose, lines 470-488, and on_mount, line 522: the main screen, with
\* get_button and delete_screen enabled by enable_buttons once the
\* credentials are loaded, and open_create_monitors disabled.
StartUi == [screen |-> "main", get_button |-> FALSE,
            open_create_monitors |-> TRUE, delete_screen |-> FALSE,
            credentials |-> TRUE]

\* compose, lines 470-488, without a configuration file: the three buttons
\* are created disabled, username and password are empty (lines 404-405).
ComposedUi == [screen |-> "main", get_button |-> TRUE,
               open_create_monitors |-> TRUE, delete_screen |-> TRUE,
               credentials |-> FALSE]

\* Both snapshots are those of a refresh of the session.
AllFetched == [monitors |-> TRUE, tags |-> TRUE, installed |-> {"monitors", "tags"}]

\* No fetch of the session has installed a snapshot: the lists are the empty
\* class attributes (lines 411-412).
NothingFetched == [monitors |-> TRUE, tags |-> TRUE, installed |-> {}]

\* No worker started from the screens, nothing posted.
UiQuiet ==
    /\ request = NoRequest
    /\ workers = <<>>
    /\ inbox = <<>>
    /\ ui = StartUi
    /\ fetched = AllFetched

AppQuiet ==
    /\ mvr_classes = <<>>
    /\ mvr_positions = <<>>
    /\ mvr_fixtures = <<>>
    /\ kuma_tags = <<>>
    /\ kuma_fixtures = <<>>
    /\ toggles = DefaultToggles
    /\ checkboxes = DefaultToggles
    /\ remote_tags = <<>>
    /\ remote_monitors = <<>>
    /\ last_op = "none"
    /\ ops = 0
    /\ api_calls = <<>>
    /\ errors = <<>>
    /\ conn = "none"
    /\ session = "none"
    /\ app_pc = "idle"
    /\ UiQuiet

InitMerge == MergeInit /\ AppQuiet
NextMerge == MergerIterate \/ MergerWrite
SpecMerge == InitMerge /\ [][NextMerge]_vars

\* merger, lines 74-76, for source files in which every fixture carries an
\* ipv4 entry, so that every source fixture takes part in the matching.
RivalsInit ==
    /\ in_file \in SeqsUpTo(InWithNetwork, MaxIn)
    /\ out_file \in SeqsUpTo(OutFixtureSet, MaxOut)
    /\ in_fixtures = in_file
    /\ out_fixtures = out_file
    /\ done_already = <<>>
    /\ copies = <<>>
    /\ merged_file = <<>>
    /\ merge_pc = "loop"

InitRivals == RivalsInit /\ AppQuiet
SpecRivals == InitRivals /\ [][NextMerge]_vars

----------------------------------------------------------------------------
(* tui/fixture.py and tui/app.py: remote tags                              *)

\* A tag of the show data (class, position or layer): app.py reads its name
\* and uuid attributes.
MvrTagSet == {[name |-> "Stage", uuid |-> "u-stage"], [name |-> "FOH", uuid |-> "u-foh"]}

\* An imported layer: its tag (layer.layer) and its fixtures.
MvrLayerSet == [layer : MvrTagSet, fixtures : {<<>>}]

KumaTagNames == {"Stage", "FOH", "Unrelated"}

\* KumaTag.__init__: the object gets the attributes id and name, no other.
KumaTag(data) == [id |-> data.id, name |-> data.name]

\* on_tags_fetched: the snapshot built from the dicts that get_tags returned;
\* the remote service numbers its tags.
KumaTagSnapshot(names) ==
    [i \in 1..Len(names) |-> KumaTag([id |-> i, name |-> names[i], color |-> "#000000"])]

\* run_api_create_tags, lines 1079-1083: the desired tags, in scan order.
desired_tags(classes, positions, fixtures) ==
    classes \o positions \o [i \in 1..Len(fixtures) |-> fixtures[i].layer]

\* Mutant of tag_matches: the tags are compared by uuid alone, which a tag
\* of the snapshot does not have.
tag_matches_uuid_only(tag, kuma_tag) ==
    IF "uuid" \in DOMAIN kuma_tag /\ tag.uuid = kuma_tag.uuid THEN "True" ELSE "False"

\* run_api_create_tags, line 1087: `tag.name == kuma_tag.name or
\* tag.uuid == kuma_tag.uuid`.  `or` reads kuma_tag.uuid only when the names
\* differ, and reading an attribute the object does not have raises.
tag_matches(tag, kuma_tag) ==
    IF tag.name = kuma_tag.name THEN "True"
    ELSE IF "uuid" \notin DOMAIN kuma_tag THEN "AttributeError"
    ELSE IF tag.uuid = kuma_tag.uuid THEN "True"
    ELSE "False"

\* run_api_create_tags, lines 1084-1088: the scan of the snapshot for one
\* desired tag, from entry j on; the value of `add` after it, or the
\* exception that ended it.
RECURSIVE scan_kuma_tags(_, _, _, _)
scan_kuma_tags(tag, snapshot, j, add) ==
    IF j > Len(snapshot) THEN (IF add THEN "add" ELSE "skip")
    ELSE LET m == tag_matches(tag, snapshot[j])
         IN  IF m = "AttributeError" THEN "AttributeError"
             ELSE scan_kuma_tags(tag, snapshot, j + 1, add /\ m # "True")

\* A remote call succeeds when the session is logged in and it is not the
\* fail_at-th call of the operation (fail_at = 0: the service fails no call;
\* without login every call fails, whatever fail_at is).
call_succeeds(calls, logged_in, fail_at) ==
    logged_in /\ Len(calls) + 1 # fail_at

\* run_api_create_tags, lines 1079-1096: the loop over the desired tags from
\* tag i on.  Any exception leaves the loop for the handler of line 1094.
\* Result: the calls made and the message of the exception, if any.
RECURSIVE create_tags_loop(_, _, _, _, _, _)
create_tags_loop(tags, snapshot, i, calls, logged_in, fail_at) ==
    IF i > Len(tags) THEN [calls |-> calls, raised |-> <<>>]
    ELSE
      LET add == scan_kuma_tags(tags[i], snapshot, 1, TRUE)
      IN  IF add = "AttributeError"
          THEN [calls |-> calls, raised |-> <<"AttributeError: uuid">>]
          ELSE IF add = "skip"
          THEN create_tags_loop(tags, snapshot, i + 1, calls, logged_in, fail_at)
          ELSE IF call_succeeds(calls, logged_in, fail_at)
          THEN create_tags_loop(tags, snapshot, i + 1,
                   Append(calls, [op |-> "add_tag", name |-> tags[i].name, ok |-> TRUE]),
                   logged_in, fail_at)
          ELSE [calls |-> Append(calls, [op |-> "add_tag", name |-> tags[i].name, ok |-> FALSE]),
                raised |-> <<"add_tag failed">>]

----------------------------------------------------------------------------
(* The Uptime Kuma service, as far as the calls of tui/app.py show it      *)

\* The tag dicts that get_tags returns for tags with these names.
RemoteTags(names) ==
    [i \in 1..Len(names) |-> [id |-> i, name |-> names[i], color |-> "#000000"]]

\* The id the service gives to the next tag or monitor it stores.
next_id(entries) ==
    IF entries = <<>> THEN 1
    ELSE 1 + (CHOOSE m \in {entries[i].id : i \in 1..Len(entries)} :
                 \A i \in 1..Len(entries) : entries[i].id <= m)

\* api.add_tag(name=..., color=...), line 1090: the service stores a tag.
remote_add_tag(tags, call) ==
    Append(tags, [id |-> next_id(tags), name |-> call.name, color |-> "#000000"])

\* api.add_monitor(...), lines 904-914: the service stores a monitor whose
\* description is the one passed, without tags.
remote_add_monitor(monitors, call) ==
    Append(monitors, [id |-> call.monitor_id, name |-> call.name,
                      description |-> call.description,
                      hostname |-> call.hostname, tags |-> <<>>])

\* api.add_monitor_tag(monitor_id, tag_id), lines 931-934: the service
\* attaches the tag to the monitor.
remote_add_monitor_tag(tags, monitors, call) ==
    LET hit == {j \in 1..Len(tags) : tags[j].id = call.tag_id}
    IN  [i \in 1..Len(monitors) |->
            IF monitors[i].id = call.monitor_id /\ hit # {}
            THEN [monitors[i] EXCEPT
                     !.tags = Append(@, [name |-> tags[SetMin(hit)].name])]
            ELSE monitors[i]]

\* api.delete_monitor_tag(monitor_id, tag_id), lines 1029-1031: the service
\* takes the tag off the monitor.
remote_delete_monitor_tag(tags, monitors, call) ==
    LET gone == {tags[j].name : j \in {i \in 1..Len(tags) : tags[i].id = call.tag_id}}
        keep_name(t) == t.name \notin gone
    IN  [i \in 1..Len(monitors) |->
            IF monitors[i].id = call.monitor_id
            THEN [monitors[i] EXCEPT !.tags = SelectSeq(@, keep_name)]
            ELSE monitors[i]]

\* api.delete_tag(tag.id), line 806: the tag is gone, also from the monitors.
remote_delete_tag(remote, call) ==
    LET gone == {remote.tags[j].name :
                    j \in {i \in 1..Len(remote.tags) : remote.tags[i].id = call.tag_id}}
        keep_tag(t) == t.id # call.tag_id
        keep_name(t) == t.name \notin gone
    IN  [tags |-> SelectSeq(remote.tags, keep_tag),
         monitors |-> [i \in 1..Len(remote.monitors) |->
                          [remote.monitors[i] EXCEPT !.tags = SelectSeq(@, keep_name)]]]

\* api.delete_monitor(monitor.id), line 841.
remote_delete_monitor(monitors, call) ==
    LET keep(m) == m.id # call.monitor_id
    IN  SelectSeq(monitors, keep)

\* The service after the calls of one worker, from call k on: a call that
\* failed changed nothing.
RECURSIVE apply_calls(_, _, _)
apply_calls(remote, calls, k) ==
    IF k > Len(calls) THEN remote
    ELSE
      LET call == calls[k]
          after ==
            IF ~call.ok THEN remote
            ELSE IF call.op = "add_tag"
            THEN [remote EXCEPT !.tags = remote_add_tag(@, call)]
            ELSE IF call.op = "add_monitor"
            THEN [remote EXCEPT !.monitors = remote_add_monitor(@, call)]
            ELSE IF call.op = "add_monitor_tag"
            THEN [remote EXCEPT
                     !.monitors = remote_add_monitor_tag(remote.tags, @, call)]
            ELSE IF call.op = "delete_monitor_tag"
            THEN [remote EXCEPT
                     !.monitors = remote_delete_monitor_tag(remote.tags, @, call)]
            ELSE IF call.op = "delete_tag"
            THEN remote_delete_tag(remote, call)
            ELSE [remote EXCEPT !.monitors = remote_delete_monitor(@, call)]
      IN  apply_calls(after, calls, k + 1)

\* The state in which the user presses Create: show data imported, a
\* snapshot of the remote tags fetched.
TagsInit ==
    /\ mvr_classes \in SeqsUpTo(MvrTagSet, MaxMvrTags)
    /\ mvr_positions \in SeqsUpTo(MvrTagSet, MaxMvrTags)
    /\ mvr_fixtures \in SeqsUpTo(MvrLayerSet, MaxMvrTags)
    /\ \E names \in SeqsUpTo(KumaTagNames, MaxKumaTags) :
          /\ kuma_tags = KumaTagSnapshot(names)
          /\ remote_tags = RemoteTags(names)
    /\ kuma_fixtures = <<>>
    /\ remote_monitors = <<>>
    /\ toggles = DefaultToggles
    /\ checkboxes = DefaultToggles
    /\ last_op = "none"
    /\ ops = 0
    /\ api_calls = <<>>
    /\ errors = <<>>
    /\ conn = "none"
    /\ session = "none"
    /\ app_pc = "idle"

\* run_api_create_tags, lines 1065-1099, the whole worker.
RunApiCreateTags ==
    /\ app_pc = "idle"
    /\ ops < MaxOps
    /\ ops' = ops + 1
    /\ last_op' = "create_tags"
    /\ \E c \in {"ok", "no_client", "login_failed"} :
       \E fail_at \in (IF c = "ok" THEN 0..(3 * MaxMvrTags) ELSE {0}) :
          LET tags == desired_tags(mvr_classes, mvr_positions, mvr_fixtures)
              run == create_tags_loop(tags, kuma_tags, 1, <<>>, c = "ok", fail_at)
          IN  /\ conn' = c
              /\ IF c = "no_client"
                 THEN /\ errors' = <<"connect failed", "Not logged in">>
                      /\ api_calls' = <<>>
                      /\ session' = "none"
                      /\ remote_tags' = remote_tags
                 ELSE /\ errors' = (IF c = "login_failed" THEN <<"login failed">> ELSE <<>>)
                                    \o run.raised
                      /\ api_calls' = run.calls
                      /\ session' = "closed"
                      /\ remote_tags' =
                             apply_calls([tags |-> remote_tags, monitors |-> <<>>],
                                         run.calls, 1).tags
    /\ app_pc' = "finished"
    /\ UNCHANGED <<mvr_classes, mvr_positions, mvr_fixtures, kuma_tags,
                   kuma_fixtures, toggles, checkboxes, remote_monitors>>
    /\ UNCHANGED merge_vars
    /\ UNCHANGED ui_vars

MergeQuiet ==
    /\ in_file = <<>>
    /\ out_file = <<>>
    /\ in_fixtures = <<>>
    /\ out_fixtures = <<>>
    /\ done_already = <<>>
    /\ copies = <<>>
    /\ merged_file = <<>>
    /\ merge_pc = "off"

InitTags == TagsInit /\ MergeQuiet /\ UiQuiet
NextTags == RunApiCreateTags
SpecTags == InitTags /\ [][NextTags]_vars

----------------------------------------------------------------------------
(* tui/app.py: run_api_create_monitors                                     *)

\* A fixture of an imported layer: the attributes run_api_create_monitors
\* reads.  networks holds addresses.networks; position and classing are the
\* uuid of a position/class, or None.
MvrFixture(uuid, name, networks, position, classing) ==
    [uuid |-> uuid, name |-> name, networks |-> networks,
     position |-> position, classing |-> classing]

\* Mutant of KumaFixture: the identity is read from the monitor's name.
KumaFixture_uuid_from_name(data) ==
    [name |-> data.name, id |-> data.id, uuid |-> data.name,
     tags |-> [i \in 1..Len(data.tags) |-> data.tags[i].name]]

\* KumaFixture.__init__, fixture.py lines 23-26.
KumaFixture(data) ==
    [name |-> data.name, id |-> data.id, uuid |-> data.description,
     tags |-> [i \in 1..Len(data.tags) |-> data.tags[i].name]]

\* on_monitors_fetched, line 655.
KumaFixtureSnapshot(monitors) ==
    [i \in 1..Len(monitors) |-> KumaFixture(monitors[i])]

\* Mutant of fixture_url: the loop without its break, which ends with the
\* ipv4 of the last network entry whose ipv4 is not None.
fixture_url_last(mvr_fixture) ==
    LET hits == {k \in 1..Len(mvr_fixture.networks) :
                    mvr_fixture.networks[k].ipv4 # NoneVal}
    IN  IF hits = {} THEN NoneVal
        ELSE mvr_fixture.networks[CHOOSE k \in hits : \A j \in hits : j <= k].ipv4

\* Lines 882-888: the ipv4 of the first network entry whose ipv4 is not None.
fixture_url(mvr_fixture) ==
    LET hits == {k \in 1..Len(mvr_fixture.networks) :
                    mvr_fixture.networks[k].ipv4 # NoneVal}
    IN  IF hits = {} THEN NoneVal ELSE mvr_fixture.networks[SetMin(hits)].ipv4

\* Lines 894-901: the position in the snapshot of the first monitor whose
\* uuid is the fixture's, 0 when there is none (add_monitor stays True).
find_kuma_fixture(mvr_fixture, fixtures) ==
    LET hits == {i \in 1..Len(fixtures) : fixtures[i].uuid = mvr_fixture.uuid}
    IN  IF hits = {} THEN 0 ELSE SetMin(hits)

\* is_in_classes, lines 424-428.
is_in_classes(classes, name) ==
    LET hits == {i \in 1..Len(classes) : classes[i].name = name}
    IN  IF hits = {} THEN NoneVal ELSE classes[SetMin(hits)].uuid

\* is_in_positions, lines 430-434.
is_in_positions(positions, name) ==
    LET hits == {i \in 1..Len(positions) : positions[i].name = name}
    IN  IF hits = {} THEN NoneVal ELSE positions[SetMin(hits)].uuid

\* Mutant of pass_toggle: every pass is on.
pass_toggle_always(pass, tg) == TRUE

\* Lines 919, 941, 964: the toggle that switches a pass on.
pass_toggle(pass, tg) ==
    IF pass = "layer" THEN tg.layers
    ELSE IF pass = "position" THEN tg.positions
    ELSE tg.classes

\* Lines 920, 942-943, 965-966: the condition under which a pass selects a
\* tag of the snapshot for the fixture.
pass_selects(pass, kuma_tag, ctx) ==
    IF pass = "layer" THEN kuma_tag.name = ctx.layer.layer.name
    ELSE IF pass = "position"
    THEN is_in_positions(ctx.positions, kuma_tag.name) = ctx.mvr_fixture.position
    ELSE is_in_classes(ctx.classes, kuma_tag.name) = ctx.mvr_fixture.classing

\* The record of an api.add_monitor call (lines 904-914); monitor_id is the
\* monitorID of the result, at the place <<layer, fixture>> of the fixture.
add_monitor_call(mvr_fixture, url, id, ok, at) ==
    [op |-> "add_monitor", name |-> mvr_fixture.name, hostname |-> url,
     description |-> mvr_fixture.uuid, monitor_id |-> id, ok |-> ok, at |-> at]

\* Mutant of add_monitor_tag_call: the pass calls api.delete_monitor_tag.
add_monitor_tag_call_delete(monitor_id, kuma_tag, pass, ok, at) ==
    [op |-> "delete_monitor_tag", monitor_id |-> monitor_id, tag_id |-> kuma_tag.id,
     pass |-> pass, ok |-> ok, at |-> at]

\* The record of an api.add_monitor_tag call (lines 931-934, 954-957,
\* 977-980) made by a pass.
add_monitor_tag_call(monitor_id, kuma_tag, pass, ok, at) ==
    [op |-> "add_monitor_tag", monitor_id |-> monitor_id, tag_id |-> kuma_tag.id,
     pass |-> pass, ok |-> ok, at |-> at]

\* `if add_tag:` (lines 928, 951, 974): add_tag is None (<<>>) or a tag id.
add_tag_truthy(add_tag) == add_tag # <<>> /\ add_tag[1] # 0

\* Mutant of tag_pass: once an add_monitor_tag call has failed for the
\* fixture, the passes make no further call for it.
RECURSIVE tag_pass_stops_after_failure(_, _, _, _)
tag_pass_stops_after_failure(pass, ctx, j, st) ==
    IF j > Len(ctx.kuma_tags) THEN st
    ELSE IF \E k \in 1..Len(st.calls) :
                /\ st.calls[k].op = "add_monitor_tag"
                /\ st.calls[k].at = ctx.at
                /\ ~st.calls[k].ok
    THEN st
    ELSE IF ~pass_toggle(pass, ctx.toggles)
    THEN tag_pass_stops_after_failure(pass, ctx, j + 1, st)
    ELSE
      LET kuma_tag == ctx.kuma_tags[j]
          selected == /\ pass_selects(pass, kuma_tag, ctx)
                      /\ kuma_tag.name \notin Range(st.monitor_tags)
          s1 == IF selected
                THEN [st EXCEPT !.monitor_tags = Append(@, kuma_tag.name),
                                !.add_tag = <<kuma_tag.id>>]
                ELSE st
          ok == call_succeeds(s1.calls, ctx.logged_in, ctx.fail_at)
          s2 == IF add_tag_truthy(s1.add_tag)
                THEN [s1 EXCEPT
                        !.calls = Append(@, add_monitor_tag_call(ctx.monitor_id,
                                                kuma_tag, pass, ok, ctx.at)),
                        !.add_tag = IF ok THEN <<>> ELSE @]
                ELSE s1
      IN  tag_pass_stops_after_failure(pass, ctx, j + 1, s2)

\* One pass over the snapshot of the tags, from tag j on (lines 918-937,
\* 940-960, 963-983).  st holds the calls so far, monitor_tags and add_tag.
\* A failed add_monitor_tag is caught inside the loop and leaves add_tag set.
RECURSIVE tag_pass(_, _, _, _)
tag_pass(pass, ctx, j, st) ==
    IF j > Len(ctx.kuma_tags) THEN st
    ELSE IF ~pass_toggle(pass, ctx.toggles) THEN tag_pass(pass, ctx, j + 1, st)
    ELSE
      LET kuma_tag == ctx.kuma_tags[j]
          selected == /\ pass_selects(pass, kuma_tag, ctx)
                      /\ kuma_tag.name \notin Range(st.monitor_tags)
          s1 == IF selected
                THEN [st EXCEPT !.monitor_tags = Append(@, kuma_tag.name),
                                !.add_tag = <<kuma_tag.id>>]
                ELSE st
          ok == call_succeeds(s1.calls, ctx.logged_in, ctx.fail_at)
          s2 == IF add_tag_truthy(s1.add_tag)
                THEN [s1 EXCEPT
                        !.calls = Append(@, add_monitor_tag_call(ctx.monitor_id,
                                                kuma_tag, pass, ok, ctx.at)),
                        !.add_tag = IF ok THEN <<>> ELSE @]
                ELSE s1
      IN  tag_pass(pass, ctx, j + 1, s2)

\* Lines 917-983: the three passes for one monitor; add_tag is reset before
\* the position pass and before the class pass.
three_passes(ctx, calls, monitor_tags) ==
    LET p1 == tag_pass("layer", ctx, 1,
                  [calls |-> calls, monitor_tags |-> monitor_tags, add_tag |-> <<>>])
        p2 == tag_pass("position", ctx, 1, [p1 EXCEPT !.add_tag = <<>>])
    IN  tag_pass("class", ctx, 1, [p2 EXCEPT !.add_tag = <<>>])

\* The number of monitors the service has stored during the run so far.
created_monitors(calls) ==
    Cardinality({k \in 1..Len(calls) : calls[k].op = "add_monitor" /\ calls[k].ok})

\* Lines 882-983: the body of the inner loop for one fixture of a layer.
\* st holds the calls so far, the snapshot of the monitors (monitor_tags is
\* the tags list of the snapshot's monitor itself, so that what the passes
\* append to it stays in the snapshot) and the exception raised, if any.
reconcile_fixture(env, layer, mvr_fixture, at, st) ==
    LET url == fixture_url(mvr_fixture)
        idx == find_kuma_fixture(mvr_fixture, st.fixtures)
        ctx(id) == [layer |-> layer, mvr_fixture |-> mvr_fixture, monitor_id |-> id,
                    at |-> at, kuma_tags |-> env.kuma_tags, classes |-> env.classes,
                    positions |-> env.positions, toggles |-> env.toggles,
                    logged_in |-> env.logged_in, fail_at |-> env.fail_at]
    IN  IF url = NoneVal THEN st
        ELSE IF idx # 0
        THEN LET p == three_passes(ctx(st.fixtures[idx].id), st.calls,
                                   st.fixtures[idx].tags)
             IN  [st EXCEPT !.calls = p.calls,
                            !.fixtures[idx].tags = p.monitor_tags]
        ELSE IF ~call_succeeds(st.calls, env.logged_in, env.fail_at)
        THEN [st EXCEPT
                 !.calls = Append(@, add_monitor_call(mvr_fixture, url, 0, FALSE, at)),
                 !.raised = <<"add_monitor failed">>]
        ELSE LET id == env.first_id + created_monitors(st.calls)
                 p == three_passes(ctx(id),
                          Append(st.calls, add_monitor_call(mvr_fixture, url, id, TRUE, at)),
                          <<>>)
             IN  [st EXCEPT !.calls = p.calls]

\* Lines 878-983: the loops over the layers and their fixtures, from
\* fixture fi of layer li on.  An exception (a failed add_monitor) leaves
\* both loops for the handler of line 985.
RECURSIVE create_monitors_loop(_, _, _, _, _)
create_monitors_loop(env, layers, li, fi, st) ==
    IF st.raised # <<>> \/ li > Len(layers) THEN st
    ELSE IF fi > Len(layers[li].fixtures)
    THEN create_monitors_loop(env, layers, li + 1, 1, st)
    ELSE create_monitors_loop(env, layers, li, fi + 1,
             reconcile_fixture(env, layers[li], layers[li].fixtures[fi],
                               <<li, fi>>, st))

\* run_api_create_monitors, lines 853-991, the whole worker.  data is what
\* AddMonitorsScreen.on_button_pressed (screens.py 296-305) passes: the
\* values of the three checkboxes.
RunApiCreateMonitors ==
    /\ app_pc = "idle"
    /\ ops < MaxOps
    /\ ops' = ops + 1
    /\ last_op' = "create_monitors"
    /\ \E c \in {"ok", "no_client", "login_failed"} :
       \E fail_at \in (IF c = "ok" THEN 0..(2 * MaxLayerFixtures) ELSE {0}) :
          LET data == checkboxes
              env == [kuma_tags |-> kuma_tags, classes |-> mvr_classes,
                      positions |-> mvr_positions, toggles |-> data,
                      logged_in |-> (c = "ok"), fail_at |-> fail_at,
                      first_id |-> next_id(remote_monitors)]
              run == create_monitors_loop(env, mvr_fixtures, 1, 1,
                         [calls |-> <<>>, fixtures |-> kuma_fixtures, raised |-> <<>>])
              login == IF c = "login_failed" THEN <<"login failed">> ELSE <<>>
          IN  /\ toggles' = data
              /\ conn' = c
              /\ IF c = "no_client"
                 THEN /\ errors' = <<"connect failed", "Not logged in">>
                      /\ api_calls' = <<>>
                      /\ session' = "none"
                      /\ kuma_fixtures' = kuma_fixtures
                      /\ remote_monitors' = remote_monitors
                 ELSE /\ errors' = login \o run.raised
                      /\ api_calls' = run.calls
                      /\ session' = "closed"
                      /\ kuma_fixtures' = run.fixtures
                      /\ remote_monitors' =
                             apply_calls([tags |-> remote_tags,
                                          monitors |-> remote_monitors],
                                         run.calls, 1).monitors
    /\ app_pc' = "finished"
    /\ UNCHANGED <<mvr_classes, mvr_positions, mvr_fixtures, kuma_tags,
                   checkboxes, remote_tags>>
    /\ UNCHANGED merge_vars
    /\ UNCHANGED ui_vars

\* run_api_get_data (lines 749-778), started by on_worker_state_changed
\* (lines 1125-1134) when another worker has ended, with the handlers of
\* the messages it posts (on_monitors_fetched, on_tags_fetched).  get_monitors
\* is its call 1 and get_tags its call 2; each has its own try.
RunApiGetData ==
    /\ app_pc = "finished"
    /\ \E c \in {"ok", "no_client", "login_failed"} :
       \E fail_at \in (IF c = "ok" THEN 0..2 ELSE {0}) :
          LET monitors_ok == c = "ok" /\ fail_at # 1
              tags_ok == c = "ok" /\ fail_at # 2
              raised == IF c = "no_client"
                        THEN <<"connect failed", "Not logged in">>
                        ELSE (IF c = "login_failed" THEN <<"login failed">> ELSE <<>>)
                             \o (IF monitors_ok THEN <<>> ELSE <<"get_monitors failed">>)
                             \o (IF tags_ok THEN <<>> ELSE <<"get_tags failed">>)
          IN  /\ conn' = c
              /\ session' = IF c = "no_client" THEN "none" ELSE "closed"
              /\ errors' = errors \o raised
              /\ kuma_fixtures' = IF monitors_ok
                                  THEN KumaFixtureSnapshot(remote_monitors)
                                  ELSE kuma_fixtures
              /\ kuma_tags' = IF tags_ok
                              THEN [i \in 1..Len(remote_tags) |-> KumaTag(remote_tags[i])]
                              ELSE kuma_tags
    /\ app_pc' = "idle"
    /\ UNCHANGED <<mvr_classes, mvr_positions, mvr_fixtures, toggles, checkboxes,
                   remote_tags, remote_monitors, api_calls, ops, last_op>>
    /\ UNCHANGED merge_vars
    /\ UNCHANGED ui_vars

\* Fixtures of the imported layers: with one address, with several network
\* entries the first of which has no ipv4, and without any ipv4; with and
\* without position and class.
MvrFixtureSet ==
    {MvrFixture("U1", "spot", <<Network("10.0.0.5")>>, NoneVal, NoneVal),
     MvrFixture("U2", "wash",
                <<Network(NoneVal), Network("10.0.0.9"), Network("10.0.0.5")>>,
                "u-foh", "u-stage"),
     MvrFixture("U1", "beam", <<Network(NoneVal)>>, "u-foh", NoneVal)}

\* The tags of the show data the fixtures above refer to: the layer and the
\* class Stage, the position FOH.
StageTag == [name |-> "Stage", uuid |-> "u-stage"]
FohTag == [name |-> "FOH", uuid |-> "u-foh"]

MonitorLayerSet ==
    [layer : {StageTag}, fixtures : SeqsUpTo(MvrFixtureSet, MaxLayerFixtures)]

\* The monitors the service may hold at the start: none, or one for the
\* fixture U1, without tags or with the first of the service's tags.
RemoteMonitorSets(tags) ==
    LET m(tg) == [id |-> 1, name |-> "spot", description |-> "U1",
                  hostname |-> "10.0.0.5", tags |-> tg]
    IN  {<<>>, <<m(<<>>)>>}
        \cup (IF tags = <<>> THEN {} ELSE {<<m(<<[name |-> tags[1].name]>>)>>})

\* The state in which the user presses Add Monitors: show data imported,
\* snapshots of the service fetched, checkboxes set.
MonitorsInit ==
    /\ mvr_classes \in SeqsUpTo({StageTag}, MaxMvrTags)
    /\ mvr_positions \in SeqsUpTo({FohTag}, MaxMvrTags)
    /\ mvr_fixtures \in SeqsUpTo(MonitorLayerSet, MaxMvrTags)
    /\ \E names \in SeqsUpTo(KumaTagNames, MaxKumaTags) :
          /\ remote_tags = RemoteTags(names)
          /\ kuma_tags = KumaTagSnapshot(names)
          /\ remote_monitors \in RemoteMonitorSets(RemoteTags(names))
    /\ kuma_fixtures = KumaFixtureSnapshot(remote_monitors)
    /\ checkboxes \in [layers : BOOLEAN, classes : BOOLEAN, positions : BOOLEAN]
    /\ toggles = checkboxes
    /\ last_op = "none"
    /\ ops = 0
    /\ api_calls = <<>>
    /\ errors = <<>>
    /\ conn = "none"
    /\ session = "none"
    /\ app_pc = "idle"

InitMonitors == MonitorsInit /\ MergeQuiet /\ UiQuiet
NextMonitors == RunApiCreateMonitors
SpecMonitors == InitMonitors /\ [][NextMonitors]_vars

\* The state in which the user presses Add Monitors in the dialog with any
\* choice of the three checkboxes: one layer imported with its class and
\* position tags, snapshots of the service fetched.
OptionsInit ==
    /\ mvr_classes \in {<<>>, <<StageTag>>}
    /\ mvr_positions = <<FohTag>>
    /\ mvr_fixtures \in {<<layer>> : layer \in MonitorLayerSet}
    /\ \E names \in SeqsUpTo({"Stage", "FOH"}, MaxKumaTags) :
          /\ remote_tags = RemoteTags(names)
          /\ kuma_tags = KumaTagSnapshot(names)
          /\ remote_monitors \in RemoteMonitorSets(RemoteTags(names))
    /\ kuma_fixtures = KumaFixtureSnapshot(remote_monitors)
    /\ checkboxes \in [layers : BOOLEAN, classes : BOOLEAN, positions : BOOLEAN]
    /\ toggles = DefaultToggles
    /\ last_op = "none"
    /\ ops = 0
    /\ api_calls = <<>>
    /\ errors = <<>>
    /\ conn = "none"
    /\ session = "none"
    /\ app_pc = "idle"

InitOptions == OptionsInit /\ MergeQuiet /\ UiQuiet
NextOptions == RunApiCreateMonitors
SpecOptions == InitOptions /\ [][NextOptions]_vars

\* The state after start-up against a service that holds nothing yet: one
\* layer imported with its class and position tags, nothing fetched, the
\* checkboxes as the class attributes.
CreateInit ==
    /\ mvr_classes \in {<<>>, <<StageTag>>}
    /\ mvr_positions \in {<<>>, <<FohTag>>}
    /\ mvr_fixtures \in {<<layer>> : layer \in MonitorLayerSet}
    /\ kuma_tags = <<>>
    /\ kuma_fixtures = <<>>
    /\ remote_tags = <<>>
    /\ remote_monitors = <<>>
    /\ checkboxes = DefaultToggles
    /\ toggles = DefaultToggles
    /\ last_op = "none"
    /\ ops = 0
    /\ api_calls = <<>>
    /\ errors = <<>>
    /\ conn = "none"
    /\ session = "none"
    /\ app_pc = "idle"

\* Up to MaxOps presses of Create and Add Monitors, each followed by the
\* refresh that on_worker_state_changed starts.
InitCreate == CreateInit /\ MergeQuiet /\ UiQuiet
NextCreate == RunApiCreateTags \/ RunApiCreateMonitors \/ RunApiGetData
SpecCreate == InitCreate /\ [][NextCreate]_vars

----------------------------------------------------------------------------
(* tui/app.py: run_api_delete_tags, run_api_delete_monitors                *)

\* Mutant of tag_is_referenced: every tag counts as referenced.
tag_is_referenced_always(tag, tags) == TRUE

\* Lines 798-804: the value of `delete` after the scan of the desired tags.
tag_is_referenced(tag, tags) ==
    \E i \in 1..Len(tags) : tag.name = tags[i].name

\* Lines 795-809: the loop over the snapshot of the tags from tag i on; a
\* failed delete_tag leaves the loop for the handler of line 811.
RECURSIVE delete_tags_loop(_, _, _, _, _, _, _)
delete_tags_loop(snapshot, tags, mvr, i, calls, logged_in, fail_at) ==
    IF i > Len(snapshot) THEN [calls |-> calls, raised |-> <<>>]
    ELSE
      LET delete == IF mvr THEN tag_is_referenced(snapshot[i], tags) ELSE TRUE
          ok == call_succeeds(calls, logged_in, fail_at)
          call == [op |-> "delete_tag", tag_id |-> snapshot[i].id, ok |-> ok]
      IN  IF ~delete
          THEN delete_tags_loop(snapshot, tags, mvr, i + 1, calls, logged_in, fail_at)
          ELSE IF ok
          THEN delete_tags_loop(snapshot, tags, mvr, i + 1, Append(calls, call),
                                logged_in, fail_at)
          ELSE [calls |-> Append(calls, call), raised |-> <<"delete_tag failed">>]

\* run_api_delete_tags, lines 780-816, the whole worker; mvr is the argument
\* DeleteScreen.on_button_pressed passes (screens.py 224-240).
RunApiDeleteTags ==
    /\ app_pc = "idle"
    /\ ops < MaxOps
    /\ ops' = ops + 1
    /\ \E mvr \in BOOLEAN :
       \E c \in {"ok", "no_client", "login_failed"} :
       \E fail_at \in (IF c = "ok" THEN 0..MaxDelTags ELSE {0}) :
          LET tags == desired_tags(mvr_classes, mvr_positions, mvr_fixtures)
              run == delete_tags_loop(kuma_tags, tags, mvr, 1, <<>>, c = "ok", fail_at)
              login == IF c = "login_failed" THEN <<"login failed">> ELSE <<>>
              after == apply_calls([tags |-> remote_tags, monitors |-> remote_monitors],
                                   run.calls, 1)
          IN  /\ last_op' = IF mvr THEN "delete_mvr_tags" ELSE "delete_tags"
              /\ conn' = c
              /\ IF c = "no_client"
                 THEN /\ errors' = <<"connect failed", "Not logged in">>
                      /\ api_calls' = <<>>
                      /\ session' = "none"
                      /\ UNCHANGED <<remote_tags, remote_monitors>>
                 ELSE /\ errors' = login \o run.raised
                      /\ api_calls' = run.calls
                      /\ session' = "closed"
                      /\ remote_tags' = after.tags
                      /\ remote_monitors' = after.monitors
    /\ app_pc' = "finished"
    /\ UNCHANGED <<mvr_classes, mvr_positions, mvr_fixtures, kuma_tags,
                   kuma_fixtures, toggles, checkboxes>>
    /\ UNCHANGED merge_vars
    /\ UNCHANGED ui_vars

\* Mutant of monitor_is_referenced: only the first layer is searched.
monitor_is_referenced_first_layer(monitor, layers) ==
    /\ layers # <<>>
    /\ \E fi \in 1..Len(layers[1].fixtures) :
          layers[1].fixtures[fi].uuid = monitor.uuid

\* Lines 837-840: the value of `delete` after the scan of the layers.
monitor_is_referenced(monitor, layers) ==
    \E li \in 1..Len(layers) :
        \E fi \in 1..Len(layers[li].fixtures) :
            layers[li].fixtures[fi].uuid = monitor.uuid

\* Lines 834-844: the loop over the snapshot of the monitors from monitor i
\* on; a failed delete_monitor leaves the loop for the handler of line 846.
RECURSIVE delete_monitors_loop(_, _, _, _, _, _, _)
delete_monitors_loop(snapshot, layers, mvr, i, calls, logged_in, fail_at) ==
    IF i > Len(snapshot) THEN [calls |-> calls, raised |-> <<>>]
    ELSE
      LET delete == IF mvr THEN monitor_is_referenced(snapshot[i], layers) ELSE TRUE
          ok == call_succeeds(calls, logged_in, fail_at)
          call == [op |-> "delete_monitor", monitor_id |-> snapshot[i].id, ok |-> ok]
      IN  IF ~delete
          THEN delete_monitors_loop(snapshot, layers, mvr, i + 1, calls,
                                    logged_in, fail_at)
          ELSE IF ok
          THEN delete_monitors_loop(snapshot, layers, mvr, i + 1, Append(calls, call),
                                    logged_in, fail_at)
          ELSE [calls |-> Append(calls, call), raised |-> <<"delete_monitor failed">>]

\* run_api_delete_monitors, lines 818-851, the whole worker; mvr is the
\* argument DeleteScreen.on_button_pressed passes (screens.py 218-234).
RunApiDeleteMonitors ==
    /\ app_pc = "idle"
    /\ ops < MaxOps
    /\ ops' = ops + 1
    /\ \E mvr \in BOOLEAN :
       \E c \in {"ok", "no_client", "login_failed"} :
       \E fail_at \in (IF c = "ok" THEN 0..MaxKumaMonitors ELSE {0}) :
          LET run == delete_monitors_loop(kuma_fixtures, mvr_fixtures, mvr, 1, <<>>,
                                          c = "ok", fail_at)
              login == IF c = "login_failed" THEN <<"login failed">> ELSE <<>>
          IN  /\ last_op' = IF mvr THEN "delete_mvr_monitors" ELSE "delete_monitors"
              /\ conn' = c
              /\ IF c = "no_client"
                 THEN /\ errors' = <<"connect failed", "Not logged in">>
                      /\ api_calls' = <<>>
                      /\ session' = "none"
                      /\ remote_monitors' = remote_monitors
                 ELSE /\ errors' = login \o run.raised
                      /\ api_calls' = run.calls
                      /\ session' = "closed"
                      /\ remote_monitors' =
                             apply_calls([tags |-> remote_tags,
                                          monitors |-> remote_monitors],
                                         run.calls, 1).monitors
    /\ app_pc' = "finished"
    /\ UNCHANGED <<mvr_classes, mvr_positions, mvr_fixtures, kuma_tags,
                   kuma_fixtures, toggles, checkboxes, remote_tags>>
    /\ UNCHANGED merge_vars
    /\ UNCHANGED ui_vars

\* The monitor dicts that get_monitors returns for monitors with these
\* descriptions.
RemoteMonitors(uuids) ==
    [i \in 1..Len(uuids) |->
        [id |-> i, name |-> "monitor", description |-> uuids[i],
         hostname |-> "10.0.0.5", tags |-> <<>>]]

\* Layers with at most one fixture, for the scan of run_api_delete_monitors.
DeleteLayerSet ==
    [layer : {StageTag},
     fixtures : {<<>>} \cup {<<f>> : f \in MvrFixtureSet}]

\* The state in which the user presses a button of DeleteScreen: show data
\* imported, snapshots of the service fetched.  Either the tags or the
\* monitors are varied.
DeleteInit ==
    /\ \/ /\ mvr_classes \in SeqsUpTo(MvrTagSet, MaxMvrTags)
          /\ mvr_positions \in SeqsUpTo(MvrTagSet, MaxMvrTags)
          /\ mvr_fixtures \in SeqsUpTo(MvrLayerSet, MaxMvrTags)
          /\ \E names \in SeqsUpTo(KumaTagNames, MaxDelTags) :
                remote_tags = RemoteTags(names)
          /\ remote_monitors = <<>>
       \/ /\ mvr_classes = <<>>
          /\ mvr_positions = <<>>
          /\ mvr_fixtures \in SeqsUpTo(DeleteLayerSet, MaxLayers)
          /\ remote_tags = <<>>
          /\ \E uuids \in SeqsUpTo({"U1", "U2", "U9"}, MaxKumaMonitors) :
                remote_monitors = RemoteMonitors(uuids)
    /\ kuma_tags = [i \in 1..Len(remote_tags) |-> KumaTag(remote_tags[i])]
    /\ kuma_fixtures = KumaFixtureSnapshot(remote_monitors)
    /\ toggles = DefaultToggles
    /\ checkboxes = DefaultToggles
    /\ last_op = "none"
    /\ ops = 0
    /\ api_calls = <<>>
    /\ errors = <<>>
    /\ conn = "none"
    /\ session = "none"
    /\ app_pc = "idle"

InitDelete == DeleteInit /\ MergeQuiet /\ UiQuiet
NextDelete == RunApiDeleteTags \/ RunApiDeleteMonitors
SpecDelete == InitDelete /\ [][NextDelete]_vars

----------------------------------------------------------------------------
(* tui/app.py: open_edit_kuma_tags_modal, run_api_add_tags_to_monitors     *)

\* KumaFixtureListDisplay.refresh_options, lines 284-289: the keys of the
\* checkboxes of the monitor list, one for each monitor with a uuid.
fixture_keys(fixtures) ==
    {fixtures[i].uuid : i \in {j \in 1..Len(fixtures) : fixtures[j].uuid # ""}}

\* open_edit_kuma_tags_modal, lines 1214-1220: the names the editor starts
\* with, those of the tags of the selected monitors.
initial_selected_tags(fixtures, selected_fixture_ids) ==
    UNION {Range(fixtures[i].tags) :
              i \in {j \in 1..Len(fixtures) :
                        fixtures[j].uuid # "" /\ fixtures[j].uuid \in selected_fixture_ids}}

\* EditTagsScreen: the sets of tag names the user can leave selected, among
\* the names of the tags shown and the names selected at the start.
EditTagsScreen_selections(data) ==
    SUBSET ({data.tags[i].name : i \in 1..Len(data.tags)} \cup data.selected)

\* save_selection, lines 1226-1230.
fixtures_to_update(fixtures, selected_fixture_ids) ==
    LET chosen(fixture) == fixture.uuid \in selected_fixture_ids
    IN  SelectSeq(fixtures, chosen)

\* save_selection, line 1231.
tags_to_use(snapshot, selected_tags) ==
    LET chosen(tag) == tag.name \in selected_tags
    IN  SelectSeq(snapshot, chosen)

\* Lines 1017-1020 and 1029-1031: the records of the two calls.
attach_call(monitor, tag, ok) ==
    [op |-> "add_monitor_tag", monitor_id |-> monitor.id, tag_id |-> tag.id, ok |-> ok]

detach_call(monitor, tag, ok) ==
    [op |-> "delete_monitor_tag", monitor_id |-> monitor.id, tag_id |-> tag.id, ok |-> ok]

\* Lines 1012-1022: the loop over the chosen tags for one monitor, from tag
\* j on.  A failed add_monitor_tag is caught inside the loop.
RECURSIVE attach_tags(_, _, _, _)
attach_tags(monitor, tags, j, st) ==
    IF j > Len(tags) THEN st
    ELSE IF tags[j].name \in Range(monitor.tags)
    THEN attach_tags(monitor, tags, j + 1, st)
    ELSE attach_tags(monitor, tags, j + 1,
             [st EXCEPT !.calls = Append(@, attach_call(monitor, tags[j],
                                  call_succeeds(st.calls, st.logged_in, st.fail_at)))])

\* Lines 1026-1033: the scan of the snapshot of the tags for one name to
\* take off, from tag k on.  A failed delete_monitor_tag reaches
\* `except exception as e`, where the name exception is not defined: the
\* NameError leaves the worker.
RECURSIVE detach_name(_, _, _, _, _)
detach_name(monitor, tag_name, snapshot, k, st) ==
    IF st.raised # <<>> \/ k > Len(snapshot) THEN st
    ELSE IF snapshot[k].name # tag_name
    THEN detach_name(monitor, tag_name, snapshot, k + 1, st)
    ELSE LET ok == call_succeeds(st.calls, st.logged_in, st.fail_at)
             s1 == [st EXCEPT !.calls = Append(@, detach_call(monitor, snapshot[k], ok))]
         IN  detach_name(monitor, tag_name, snapshot, k + 1,
                 IF ok THEN s1 ELSE [s1 EXCEPT !.raised = <<"NameError: exception">>])

\* Lines 1024-1025: the loop over the names of the monitor's tags, from
\* name j on.
RECURSIVE detach_tags(_, _, _, _, _)
detach_tags(monitor, selected_tag_names, snapshot, j, st) ==
    IF st.raised # <<>> \/ j > Len(monitor.tags) THEN st
    ELSE IF monitor.tags[j] \in selected_tag_names
    THEN detach_tags(monitor, selected_tag_names, snapshot, j + 1, st)
    ELSE detach_tags(monitor, selected_tag_names, snapshot, j + 1,
             detach_name(monitor, monitor.tags[j], snapshot, 1, st))

\* Lines 1009-1033: the loop over the monitors, from monitor i on.
RECURSIVE replace_tags_loop(_, _, _, _, _)
replace_tags_loop(monitors, tags, snapshot, i, st) ==
    IF st.raised # <<>> \/ i > Len(monitors) THEN st
    ELSE
      LET selected_tag_names == {tags[j].name : j \in 1..Len(tags)}
          attached == attach_tags(monitors[i], tags, 1, st)
      IN  replace_tags_loop(monitors, tags, snapshot, i + 1,
              detach_tags(monitors[i], selected_tag_names, snapshot, 1, attached))

\* The Tags button with its editor (open_edit_kuma_tags_modal, lines
\* 1208-1245) and run_api_add_tags_to_monitors, lines 993-1036, the whole
\* worker.  The disconnect of line 1036 is reached only when no exception
\* leaves the loops.
RunApiAddTagsToMonitors ==
    /\ app_pc = "idle"
    /\ ops < MaxOps
    /\ ops' = ops + 1
    /\ last_op' = "add_tags_to_monitors"
    /\ \E selected_fixture_ids \in SUBSET fixture_keys(kuma_fixtures) \ {{}} :
       \E selected_tags \in EditTagsScreen_selections(
              [tags |-> kuma_tags,
               selected |-> initial_selected_tags(kuma_fixtures, selected_fixture_ids)]) :
       \E c \in {"ok", "no_client", "login_failed"} :
       \E fail_at \in (IF c = "ok" THEN 0..MaxReplaceCalls ELSE {0}) :
          LET monitors == fixtures_to_update(kuma_fixtures, selected_fixture_ids)
              tags == tags_to_use(kuma_tags, selected_tags)
              run == replace_tags_loop(monitors, tags, kuma_tags, 1,
                         [calls |-> <<>>, raised |-> <<>>,
                          logged_in |-> (c = "ok"), fail_at |-> fail_at])
              after == apply_calls([tags |-> remote_tags, monitors |-> remote_monitors],
                                   run.calls, 1)
          IN  /\ request' = [monitors |-> monitors, tags |-> tags,
                             ids |-> selected_fixture_ids, selected |-> selected_tags]
              /\ conn' = c
              /\ IF c = "no_client"
                 THEN /\ errors' = <<"connect failed", "Not logged in">>
                      /\ api_calls' = <<>>
                      /\ session' = "none"
                      /\ remote_monitors' = remote_monitors
                 ELSE /\ errors' = (IF c = "login_failed" THEN <<"login failed">> ELSE <<>>)
                      /\ api_calls' = run.calls
                      /\ session' = (IF run.raised = <<>> THEN "closed" ELSE "open")
                      /\ remote_monitors' = after.monitors
    /\ app_pc' = "finished"
    /\ UNCHANGED <<mvr_classes, mvr_positions, mvr_fixtures, kuma_tags,
                   kuma_fixtures, toggles, checkboxes, remote_tags>>
    /\ UNCHANGED merge_vars
    /\ UNCHANGED <<workers, inbox, ui, fetched>>

\* The monitors the service holds: at most MaxReplaceMonitors, each with a
\* uuid as description and with some of the service's tags.
ReplaceMonitorSets(tags) ==
    LET names == {tags[i].name : i \in 1..Len(tags)}
        tagsets == {<<>>} \cup {<<[name |-> n]>> : n \in names}
        m(i, u, tg) == [id |-> i, name |-> "monitor", description |-> u,
                        hostname |-> "10.0.0.5", tags |-> tg]
    IN  UNION {{[i \in 1..k |-> m(i, us[i], tgs[i])] :
                   us \in [1..k -> {"U1", "U2"}], tgs \in [1..k -> tagsets]} :
               k \in 1..MaxReplaceMonitors}

\* The state in which the user presses Tags: the service holds tags and
\* monitors, and Get Server Data has fetched the monitors; the tags are
\* fetched too, or get_tags failed and the snapshot of the tags is the
\* empty one of the start.
ReplaceInit ==
    /\ mvr_classes = <<>>
    /\ mvr_positions = <<>>
    /\ mvr_fixtures = <<>>
    /\ \E names \in SeqsUpTo({"Stage", "FOH"}, MaxKumaTags) :
          /\ remote_tags = RemoteTags(names)
          /\ remote_monitors \in ReplaceMonitorSets(RemoteTags(names))
    /\ kuma_fixtures = KumaFixtureSnapshot(remote_monitors)
    /\ kuma_tags \in {<<>>, [i \in 1..Len(remote_tags) |-> KumaTag(remote_tags[i])]}
    /\ toggles = DefaultToggles
    /\ checkboxes = DefaultToggles
    /\ last_op = "none"
    /\ ops = 0
    /\ api_calls = <<>>
    /\ errors = <<>>
    /\ conn = "none"
    /\ session = "none"
    /\ app_pc = "idle"

InitReplace == ReplaceInit /\ MergeQuiet /\ UiQuiet
NextReplace == RunApiAddTagsToMonitors \/ RunApiGetData
SpecReplace == InitReplace /\ [][NextReplace]_vars

----------------------------------------------------------------------------
(* tui/app.py and tui/screens.py: buttons, thread workers and messages     *)

\* disable_buttons, lines 1184-1187.
disable_buttons(u) ==
    [u EXCEPT !.get_button = TRUE, !.open_create_monitors = TRUE, !.delete_screen = TRUE]

\* enable_buttons without the test of mvr_fixtures.
enable_buttons_without_fixtures(u, fixtures) ==
    IF u.credentials
    THEN [u EXCEPT !.get_button = FALSE, !.open_create_monitors = FALSE,
                   !.delete_screen = FALSE]
    ELSE [u EXCEPT !.get_button = TRUE, !.open_create_monitors = TRUE,
                   !.delete_screen = TRUE]

\* enable_buttons, lines 1189-1198.
enable_buttons(u, fixtures) ==
    IF u.credentials
    THEN [u EXCEPT !.get_button = FALSE,
                   !.open_create_monitors = IF fixtures # <<>> THEN FALSE ELSE @,
                   !.delete_screen = FALSE]
    ELSE [u EXCEPT !.get_button = TRUE, !.open_create_monitors = TRUE,
                   !.delete_screen = TRUE]

\* The arguments a worker is started with: mvr of the delete workers, data
\* of run_api_create_monitors, filename of run_import_mvr, monitors and tags
\* of run_api_add_tags_to_monitors.
NoArgs == [mvr |-> FALSE, data |-> DefaultToggles, filename |-> "", request |-> NoRequest]

\* @work(thread=True): the call creates a worker, which runs in a thread of
\* its own.
start_worker(ws, name, args) == Append(ws, [name |-> name, args |-> args])

Remove(seq, i) == SubSeq(seq, 1, i - 1) \o SubSeq(seq, i + 1, Len(seq))

\* post_message(...) from a worker: the messages the app handles later.
\* items holds the monitors, the tags or the layers, tags the class and
\* position tags of MvrParsed; fresh tells that no worker that changes the
\* service has ended since the fetch.
Message(type, text, items) ==
    [type |-> type, text |-> text, items |-> items,
     tags |-> [classes |-> <<>>, positions |-> <<>>], fresh |-> TRUE]

ErrorMessages(texts) == [k \in 1..Len(texts) |-> Message("Errors", texts[k], <<>>)]

\* The Worker.StateChanged event of a worker that has ended.
WorkerFinished(name) == Message("WorkerStateChanged", name, <<>>)

\* The workers on_worker_state_changed starts a refresh for (lines 1125-1132).
MutatingWorkers ==
    {"run_api_delete_tags", "run_api_add_tags_to_monitors", "run_api_create_tags",
     "run_api_create_tag", "run_api_create_monitors", "run_api_delete_monitors"}

\* A worker that changes the service has ended: what was fetched before is
\* no longer a fetch made after the last change.
stale(messages) == [k \in 1..Len(messages) |-> [messages[k] EXCEPT !.fresh = FALSE]]

\* The prologue of every api worker (e.g. lines 1067-1077): the messages
\* posted when the constructor or login raises.
prologue_errors(c) ==
    IF c = "no_client" THEN <<"connect failed", "Not logged in">>
    ELSE IF c = "login_failed" THEN <<"login failed">>
    ELSE <<>>

\* on_button_pressed, lines 542-561: Add Monitors on the main screen starts
\* run_api_create_tags, disables the buttons and opens AddMonitorsScreen,
\* whose on_mount (screens.py 290-293) sets the checkboxes from the toggles.
PressOpenCreateMonitors ==
    /\ ui.screen = "main"
    /\ ~ui.open_create_monitors
    /\ ops < MaxOps
    /\ ops' = ops + 1
    /\ workers' = start_worker(workers, "run_api_create_tags", NoArgs)
    /\ ui' = [disable_buttons(ui) EXCEPT !.screen = "add_monitors"]
    /\ checkboxes' = toggles
    /\ UNCHANGED <<mvr_classes, mvr_positions, mvr_fixtures, kuma_tags, kuma_fixtures,
                   toggles, remote_tags, remote_monitors, last_op, api_calls, errors,
                   conn, session, app_pc, request, inbox, fetched>>
    /\ UNCHANGED merge_vars

\* AddMonitorsScreen.on_button_pressed, screens.py 295-307, button
\* create_monitors: the worker is started with the values of the checkboxes,
\* and dismiss(data) runs set_config (app.py 546-551).
PressCreateMonitors ==
    /\ ui.screen = "add_monitors"
    /\ ops < MaxOps
    /\ ops' = ops + 1
    /\ \E data \in {checkboxes, [checkboxes EXCEPT !.classes = ~@]} :
          /\ checkboxes' = data
          /\ toggles' = data
          /\ workers' = start_worker(workers, "run_api_create_monitors",
                                     [NoArgs EXCEPT !.data = data])
    /\ ui' = [disable_buttons(ui) EXCEPT !.screen = "main"]
    /\ UNCHANGED <<mvr_classes, mvr_positions, mvr_fixtures, kuma_tags, kuma_fixtures,
                   remote_tags, remote_monitors, last_op, api_calls, errors,
                   conn, session, app_pc, request, inbox, fetched>>
    /\ UNCHANGED merge_vars

\* on_button_pressed, lines 564-568: the buttons MVR Files and Delete open
\* their screens; MVR Files is never disabled.  A screen is opened while a
\* press that starts a worker is still possible.
PressOpenScreen ==
    /\ ui.screen = "main"
    /\ ops < MaxOps
    /\ \E screen \in {"delete", "mvr"} :
          /\ screen = "delete" => ~ui.delete_screen
          /\ ui' = [ui EXCEPT !.screen = screen]
    /\ UNCHANGED <<mvr_classes, mvr_positions, mvr_fixtures, kuma_tags, kuma_fixtures,
                   toggles, checkboxes, remote_tags, remote_monitors, last_op, ops,
                   api_calls, errors, conn, session, app_pc, request, workers, inbox,
                   fetched>>
    /\ UNCHANGED merge_vars

\* The cancel button of a screen: dismiss.  AddMonitorsScreen dismisses with
\* the values of the checkboxes (screens.py 309-310), which set_config
\* stores in the toggles.
PressCancel ==
    /\ ui.screen \notin {"main", "exited"}
    /\ ui' = [ui EXCEPT !.screen = "main"]
    /\ toggles' = IF ui.screen = "add_monitors" THEN checkboxes ELSE toggles
    /\ UNCHANGED <<mvr_classes, mvr_positions, mvr_fixtures, kuma_tags, kuma_fixtures,
                   checkboxes, remote_tags, remote_monitors, last_op, ops,
                   api_calls, errors, conn, session, app_pc, request, workers, inbox,
                   fetched>>
    /\ UNCHANGED merge_vars

\* DeleteScreen.on_button_pressed, screens.py 217-240: each delete button
\* starts run_api_get_data and then its delete worker, disables the buttons
\* and dismisses the screen.
PressDelete ==
    /\ ui.screen = "delete"
    /\ ops < MaxOps
    /\ ops' = ops + 1
    /\ \E name \in {"run_api_delete_monitors", "run_api_delete_tags"} :
       \E mvr \in BOOLEAN :
          workers' = start_worker(start_worker(workers, "run_api_get_data", NoArgs),
                                  name, [NoArgs EXCEPT !.mvr = mvr])
    /\ ui' = [disable_buttons(ui) EXCEPT !.screen = "main"]
    /\ UNCHANGED <<mvr_classes, mvr_positions, mvr_fixtures, kuma_tags, kuma_fixtures,
                   toggles, checkboxes, remote_tags, remote_monitors, last_op,
                   api_calls, errors, conn, session, app_pc, request, inbox, fetched>>
    /\ UNCHANGED merge_vars

\* on_button_pressed, lines 580-583: Get Server Data.
PressGet ==
    /\ ui.screen = "main"
    /\ ~ui.get_button
    /\ ops < MaxOps
    /\ ops' = ops + 1
    /\ workers' = start_worker(workers, "run_api_get_data", NoArgs)
    /\ ui' = disable_buttons(ui)
    /\ UNCHANGED <<mvr_classes, mvr_positions, mvr_fixtures, kuma_tags, kuma_fixtures,
                   toggles, checkboxes, remote_tags, remote_monitors, last_op,
                   api_calls, errors, conn, session, app_pc, request, inbox, fetched>>
    /\ UNCHANGED merge_vars

\* The show files the user may pick in the file dialog.
ImportFileSet == {"stage.mvr", "foh.mvr", "broken.mvr"}

\* get_fixtures of tui/read_mvr.py: the layers with their fixtures and the
\* class and position tags of the file, or an exception.
read_mvr_get_fixtures(filename) ==
    IF filename = "stage.mvr"
    THEN [raised |-> <<>>,
          fixtures |-> <<[layer |-> StageTag,
                          fixtures |-> <<MvrFixture("U1", "spot", <<Network("10.0.0.5")>>,
                                                    NoneVal, NoneVal)>>]>>,
          tags |-> [classes |-> <<StageTag>>, positions |-> <<>>]]
    ELSE IF filename = "foh.mvr"
    THEN [raised |-> <<>>,
          fixtures |-> <<[layer |-> FohTag, fixtures |-> <<>>]>>,
          tags |-> [classes |-> <<>>, positions |-> <<FohTag>>]]
    ELSE [raised |-> <<"parse failed">>, fixtures |-> <<>>,
          tags |-> [classes |-> <<>>, positions |-> <<>>]]

\* MVRScreen.open_a_file, screens.py 379-388: Import MVR starts
\* run_import_mvr with the file picked in the dialog and dismisses the
\* screen.
PressImportMvr ==
    /\ ui.screen = "mvr"
    /\ ops < MaxOps
    /\ ops' = ops + 1
    /\ \E opened \in ImportFileSet :
          workers' = start_worker(workers, "run_import_mvr",
                                  [NoArgs EXCEPT !.filename = opened])
    /\ ui' = [ui EXCEPT !.screen = "main"]
    /\ UNCHANGED <<mvr_classes, mvr_positions, mvr_fixtures, kuma_tags, kuma_fixtures,
                   toggles, checkboxes, remote_tags, remote_monitors, last_op,
                   api_calls, errors, conn, session, app_pc, request, inbox, fetched>>
    /\ UNCHANGED merge_vars

\* MVRScreen.on_button_pressed, screens.py 360-374: Clean MVR data.
PressCleanMvr ==
    /\ ui.screen = "mvr"
    /\ mvr_fixtures' = <<>>
    /\ mvr_classes' = <<>>
    /\ mvr_positions' = <<>>
    /\ ui' = [ui EXCEPT !.open_create_monitors = TRUE, !.screen = "main"]
    /\ UNCHANGED <<kuma_tags, kuma_fixtures, toggles, checkboxes, remote_tags,
                   remote_monitors, last_op, ops, api_calls, errors, conn, session,
                   app_pc, request, workers, inbox, fetched>>
    /\ UNCHANGED merge_vars

\* Mutant of import_messages: what was parsed before the exception is posted
\* as well.
import_messages_partial(filename) ==
    LET parsed == read_mvr_get_fixtures(filename)
        partial == read_mvr_get_fixtures("stage.mvr")
    IN  IF parsed.raised = <<>>
        THEN <<[Message("MvrParsed", filename, parsed.fixtures) EXCEPT
                   !.tags = parsed.tags]>>
        ELSE <<[Message("MvrParsed", filename, partial.fixtures) EXCEPT
                   !.tags = partial.tags]>>
             \o ErrorMessages(parsed.raised)

\* run_import_mvr, lines 643-647: the messages the worker posts.
import_messages(filename) ==
    LET parsed == read_mvr_get_fixtures(filename)
    IN  IF parsed.raised = <<>>
        THEN <<[Message("MvrParsed", filename, parsed.fixtures) EXCEPT
                   !.tags = parsed.tags]>>
        ELSE ErrorMessages(parsed.raised)

\* run_import_mvr, lines 641-647, the whole worker, and the event of its end.
RunImportWorker ==
    /\ \E i \in 1..Len(workers) :
          /\ workers[i].name = "run_import_mvr"
          /\ workers' = Remove(workers, i)
          /\ inbox' = inbox \o import_messages(workers[i].args.filename)
                            \o <<WorkerFinished("run_import_mvr")>>
    /\ UNCHANGED <<mvr_classes, mvr_positions, mvr_fixtures, kuma_tags, kuma_fixtures,
                   toggles, checkboxes, remote_tags, remote_monitors, last_op, ops,
                   api_calls, errors, conn, session, app_pc, request, ui, fetched>>
    /\ UNCHANGED merge_vars

\* Mutant of OnMvrParsed: the parsed data replace the lists.
OnMvrParsed_replaces ==
    /\ inbox # <<>>
    /\ Head(inbox).type = "MvrParsed"
    /\ inbox' = Tail(inbox)
    /\ mvr_fixtures' = Head(inbox).items
    /\ mvr_classes' = Head(inbox).tags.classes
    /\ mvr_positions' = Head(inbox).tags.positions
    /\ ui' = enable_buttons(ui, mvr_fixtures')
    /\ UNCHANGED <<kuma_tags, kuma_fixtures, toggles, checkboxes, remote_tags,
                   remote_monitors, last_op, ops, api_calls, errors, conn, session,
                   app_pc, request, workers, fetched>>
    /\ UNCHANGED merge_vars

\* on_mvr_parsed, lines 677-688.
OnMvrParsed ==
    /\ inbox # <<>>
    /\ Head(inbox).type = "MvrParsed"
    /\ inbox' = Tail(inbox)
    /\ mvr_fixtures' = mvr_fixtures \o Head(inbox).items
    /\ mvr_classes' = mvr_classes \o Head(inbox).tags.classes
    /\ mvr_positions' = mvr_positions \o Head(inbox).tags.positions
    /\ ui' = enable_buttons(ui, mvr_fixtures')
    /\ UNCHANGED <<kuma_tags, kuma_fixtures, toggles, checkboxes, remote_tags,
                   remote_monitors, last_op, ops, api_calls, errors, conn, session,
                   app_pc, request, workers, fetched>>
    /\ UNCHANGED merge_vars

\* on_errors, lines 690-694: the output widget shows the error.
OnErrors ==
    /\ inbox # <<>>
    /\ Head(inbox).type = "Errors"
    /\ inbox' = Tail(inbox)
    /\ errors' = IF Head(inbox).text # "" THEN <<Head(inbox).text>> ELSE errors
    /\ UNCHANGED <<mvr_classes, mvr_positions, mvr_fixtures, kuma_tags, kuma_fixtures,
                   toggles, checkboxes, remote_tags, remote_monitors, last_op, ops,
                   api_calls, conn, session, app_pc, request, workers, ui, fetched>>
    /\ UNCHANGED merge_vars

\* on_monitors_fetched, lines 649-660.
OnMonitorsFetched ==
    /\ inbox # <<>>
    /\ Head(inbox).type = "MonitorsFetched"
    /\ inbox' = Tail(inbox)
    /\ kuma_fixtures' = KumaFixtureSnapshot(Head(inbox).items)
    /\ fetched' = [fetched EXCEPT !.monitors = Head(inbox).fresh,
                                  !.installed = @ \cup {"monitors"}]
    /\ ui' = enable_buttons(ui, mvr_fixtures)
    /\ UNCHANGED <<mvr_classes, mvr_positions, mvr_fixtures, kuma_tags,
                   toggles, checkboxes, remote_tags, remote_monitors, last_op, ops,
                   api_calls, errors, conn, session, app_pc, request, workers>>
    /\ UNCHANGED merge_vars

\* on_tags_fetched, lines 662-675.
OnTagsFetched ==
    /\ inbox # <<>>
    /\ Head(inbox).type = "TagsFetched"
    /\ inbox' = Tail(inbox)
    /\ kuma_tags' = [k \in 1..Len(Head(inbox).items) |-> KumaTag(Head(inbox).items[k])]
    /\ fetched' = [fetched EXCEPT !.tags = Head(inbox).fresh,
                                  !.installed = @ \cup {"tags"}]
    /\ ui' = enable_buttons(ui, mvr_fixtures)
    /\ UNCHANGED <<mvr_classes, mvr_positions, mvr_fixtures, kuma_fixtures,
                   toggles, checkboxes, remote_tags, remote_monitors, last_op, ops,
                   api_calls, errors, conn, session, app_pc, request, workers>>
    /\ UNCHANGED merge_vars

\* on_worker_state_changed, lines 1123-1139, for a worker that has ended: a
\* refresh after a worker that changes the service, the buttons after a
\* refresh.
OnWorkerStateChanged ==
    /\ inbox # <<>>
    /\ Head(inbox).type = "WorkerStateChanged"
    /\ inbox' = Tail(inbox)
    /\ workers' = IF Head(inbox).text \in MutatingWorkers
                  THEN start_worker(workers, "run_api_get_data", NoArgs)
                  ELSE workers
    /\ ui' = IF Head(inbox).text = "run_api_get_data"
             THEN enable_buttons(ui, mvr_fixtures)
             ELSE ui
    /\ UNCHANGED <<mvr_classes, mvr_positions, mvr_fixtures, kuma_tags, kuma_fixtures,
                   toggles, checkboxes, remote_tags, remote_monitors, last_op, ops,
                   api_calls, errors, conn, session, app_pc, request, fetched>>
    /\ UNCHANGED merge_vars

\* A worker that changes the service ends: it leaves the workers, its
\* errors and the event of its end are posted, and what was fetched before
\* is stale.
mutating_worker_ends(i, texts) ==
    /\ workers' = Remove(workers, i)
    /\ inbox' = stale(inbox) \o ErrorMessages(texts) \o <<WorkerFinished(workers[i].name)>>
    /\ fetched' = [fetched EXCEPT !.monitors = FALSE, !.tags = FALSE]

\* run_api_create_tags, lines 1064-1099, as a thread worker: it reads the
\* desired tags and the snapshot when it runs.
RunCreateTagsWorker ==
    /\ \E i \in 1..Len(workers) :
       \E c \in {"ok", "no_client", "login_failed"} :
       \E fail_at \in (IF c = "ok" THEN 0..MaxFailAt ELSE {0}) :
          LET tags == desired_tags(mvr_classes, mvr_positions, mvr_fixtures)
              run == create_tags_loop(tags, kuma_tags, 1, <<>>, c = "ok", fail_at)
          IN  /\ workers[i].name = "run_api_create_tags"
              /\ conn' = c
              /\ IF c = "no_client"
                 THEN /\ mutating_worker_ends(i, prologue_errors(c))
                      /\ api_calls' = <<>>
                      /\ session' = "none"
                      /\ remote_tags' = remote_tags
                 ELSE /\ mutating_worker_ends(i, prologue_errors(c) \o run.raised)
                      /\ api_calls' = run.calls
                      /\ session' = "closed"
                      /\ remote_tags' =
                             apply_calls([tags |-> remote_tags, monitors |-> <<>>],
                                         run.calls, 1).tags
    /\ last_op' = "create_tags"
    /\ UNCHANGED <<mvr_classes, mvr_positions, mvr_fixtures, kuma_tags, kuma_fixtures,
                   toggles, checkboxes, remote_monitors, ops, errors, app_pc, request,
                   ui>>
    /\ UNCHANGED merge_vars

\* run_api_create_monitors, lines 853-991, as a thread worker.
RunCreateMonitorsWorker ==
    /\ \E i \in 1..Len(workers) :
       \E c \in {"ok", "no_client", "login_failed"} :
       \E fail_at \in (IF c = "ok" THEN 0..MaxFailAt ELSE {0}) :
          LET data == workers[i].args.data
              env == [kuma_tags |-> kuma_tags, classes |-> mvr_classes,
                      positions |-> mvr_positions, toggles |-> data,
                      logged_in |-> (c = "ok"), fail_at |-> fail_at,
                      first_id |-> next_id(remote_monitors)]
              run == create_monitors_loop(env, mvr_fixtures, 1, 1,
                         [calls |-> <<>>, fixtures |-> kuma_fixtures, raised |-> <<>>])
          IN  /\ workers[i].name = "run_api_create_monitors"
              /\ toggles' = data
              /\ conn' = c
              /\ IF c = "no_client"
                 THEN /\ mutating_worker_ends(i, prologue_errors(c))
                      /\ api_calls' = <<>>
                      /\ session' = "none"
                      /\ kuma_fixtures' = kuma_fixtures
                      /\ remote_monitors' = remote_monitors
                 ELSE /\ mutating_worker_ends(i, prologue_errors(c) \o run.raised)
                      /\ api_calls' = run.calls
                      /\ session' = "closed"
                      /\ kuma_fixtures' = run.fixtures
                      /\ remote_monitors' =
                             apply_calls([tags |-> remote_tags,
                                          monitors |-> remote_monitors],
                                         run.calls, 1).monitors
    /\ last_op' = "create_monitors"
    /\ UNCHANGED <<mvr_classes, mvr_positions, mvr_fixtures, kuma_tags,
                   checkboxes, remote_tags, ops, errors, app_pc, request, ui>>
    /\ UNCHANGED merge_vars

\* run_api_delete_tags, lines 780-816, as a thread worker.
RunDeleteTagsWorker ==
    /\ \E i \in 1..Len(workers) :
       \E c \in {"ok", "no_client", "login_failed"} :
       \E fail_at \in (IF c = "ok" THEN 0..MaxFailAt ELSE {0}) :
          LET mvr == workers[i].args.mvr
              tags == desired_tags(mvr_classes, mvr_positions, mvr_fixtures)
              run == delete_tags_loop(kuma_tags, tags, mvr, 1, <<>>, c = "ok", fail_at)
              after == apply_calls([tags |-> remote_tags, monitors |-> remote_monitors],
                                   run.calls, 1)
          IN  /\ workers[i].name = "run_api_delete_tags"
              /\ last_op' = IF mvr THEN "delete_mvr_tags" ELSE "delete_tags"
              /\ conn' = c
              /\ IF c = "no_client"
                 THEN /\ mutating_worker_ends(i, prologue_errors(c))
                      /\ api_calls' = <<>>
                      /\ session' = "none"
                      /\ UNCHANGED <<remote_tags, remote_monitors>>
                 ELSE /\ mutating_worker_ends(i, prologue_errors(c) \o run.raised)
                      /\ api_calls' = run.calls
                      /\ session' = "closed"
                      /\ remote_tags' = after.tags
                      /\ remote_monitors' = after.monitors
    /\ UNCHANGED <<mvr_classes, mvr_positions, mvr_fixtures, kuma_tags, kuma_fixtures,
                   toggles, checkboxes, ops, errors, app_pc, request, ui>>
    /\ UNCHANGED merge_vars

\* run_api_delete_monitors, lines 818-851, as a thread worker.
RunDeleteMonitorsWorker ==
    /\ \E i \in 1..Len(workers) :
       \E c \in {"ok", "no_client", "login_failed"} :
       \E fail_at \in (IF c = "ok" THEN 0..MaxFailAt ELSE {0}) :
          LET mvr == workers[i].args.mvr
              run == delete_monitors_loop(kuma_fixtures, mvr_fixtures, mvr, 1, <<>>,
                                          c = "ok", fail_at)
          IN  /\ workers[i].name = "run_api_delete_monitors"
              /\ last_op' = IF mvr THEN "delete_mvr_monitors" ELSE "delete_monitors"
              /\ conn' = c
              /\ IF c = "no_client"
                 THEN /\ mutating_worker_ends(i, prologue_errors(c))
                      /\ api_calls' = <<>>
                      /\ session' = "none"
                      /\ remote_monitors' = remote_monitors
                 ELSE /\ mutating_worker_ends(i, prologue_errors(c) \o run.raised)
                      /\ api_calls' = run.calls
                      /\ session' = "closed"
                      /\ remote_monitors' =
                             apply_calls([tags |-> remote_tags,
                                          monitors |-> remote_monitors],
                                         run.calls, 1).monitors
    /\ UNCHANGED <<mvr_classes, mvr_positions, mvr_fixtures, kuma_tags, kuma_fixtures,
                   toggles, checkboxes, remote_tags, ops, errors, app_pc, request, ui>>
    /\ UNCHANGED merge_vars

\* run_api_get_data, lines 749-778, as a thread worker: get_monitors is its
\* call 1 and get_tags its call 2, each in its own try with the message that
\* carries what was fetched.
RunGetDataWorker ==
    /\ \E i \in 1..Len(workers) :
       \E c \in {"ok", "no_client", "login_failed"} :
       \E fail_at \in (IF c = "ok" THEN 0..2 ELSE {0}) :
          LET monitors_ok == c = "ok" /\ fail_at # 1
              tags_ok == c = "ok" /\ fail_at # 2
              posted ==
                  IF c = "no_client" THEN ErrorMessages(prologue_errors(c))
                  ELSE ErrorMessages(prologue_errors(c))
                       \o (IF monitors_ok
                           THEN <<Message("MonitorsFetched", "", remote_monitors)>>
                           ELSE ErrorMessages(<<"get_monitors failed">>))
                       \o (IF tags_ok
                           THEN <<Message("TagsFetched", "", remote_tags)>>
                           ELSE ErrorMessages(<<"get_tags failed">>))
          IN  /\ workers[i].name = "run_api_get_data"
              /\ conn' = c
              /\ session' = IF c = "no_client" THEN "none" ELSE "closed"
              /\ workers' = Remove(workers, i)
              /\ inbox' = inbox \o posted \o <<WorkerFinished("run_api_get_data")>>
    /\ UNCHANGED <<mvr_classes, mvr_positions, mvr_fixtures, kuma_tags, kuma_fixtures,
                   toggles, checkboxes, remote_tags, remote_monitors, last_op, ops,
                   api_calls, errors, app_pc, request, ui, fetched>>
    /\ UNCHANGED merge_vars

\* The state after start-up with credentials configured and one show file
\* imported: the service holds nothing, the snapshots are those of the
\* last refresh, and no worker is started.
WorkersInit ==
    /\ mvr_fixtures = read_mvr_get_fixtures("stage.mvr").fixtures
    /\ mvr_classes = read_mvr_get_fixtures("stage.mvr").tags.classes
    /\ mvr_positions = <<>>
    /\ remote_tags = <<>>
    /\ kuma_tags = <<>>
    /\ remote_monitors = <<>>
    /\ kuma_fixtures = <<>>
    /\ toggles = DefaultToggles
    /\ checkboxes = DefaultToggles
    /\ last_op = "none"
    /\ ops = 0
    /\ api_calls = <<>>
    /\ errors = <<>>
    /\ conn = "none"
    /\ session = "none"
    /\ app_pc = "idle"
    /\ request = NoRequest
    /\ workers = <<>>
    /\ inbox = <<>>
    /\ ui = enable_buttons(StartUi, mvr_fixtures)
    /\ fetched = NothingFetched

\* Up to MaxOps presses that start a worker, on the main screen and on its
\* modal screens, interleaved with the workers and with the handling of
\* their messages.
InitWorkers == WorkersInit /\ MergeQuiet
NextWorkers ==
    \/ PressOpenCreateMonitors
    \/ PressCreateMonitors
    \/ PressOpenScreen
    \/ PressCancel
    \/ PressDelete
    \/ PressGet
    \/ PressImportMvr
    \/ PressCleanMvr
    \/ RunImportWorker
    \/ OnMvrParsed
    \/ RunCreateTagsWorker
    \/ RunCreateMonitorsWorker
    \/ RunDeleteTagsWorker
    \/ RunDeleteMonitorsWorker
    \/ RunGetDataWorker
    \/ OnErrors
    \/ OnMonitorsFetched
    \/ OnTagsFetched
    \/ OnWorkerStateChanged
SpecWorkers == InitWorkers /\ [][NextWorkers]_vars

\* The state after start-up with credentials configured: nothing or one
\* show file imported, nothing on the service, no worker started.
ImportInit ==
    /\ \E filename \in {"", "stage.mvr"} :
          LET parsed == read_mvr_get_fixtures(filename)
          IN  /\ mvr_fixtures = (IF filename = "" THEN <<>> ELSE parsed.fixtures)
              /\ mvr_classes = (IF filename = "" THEN <<>> ELSE parsed.tags.classes)
              /\ mvr_positions = <<>>
    /\ kuma_tags = <<>>
    /\ kuma_fixtures = <<>>
    /\ remote_tags = <<>>
    /\ remote_monitors = <<>>
    /\ toggles = DefaultToggles
    /\ checkboxes = DefaultToggles
    /\ last_op = "none"
    /\ ops = 0
    /\ api_calls = <<>>
    /\ errors = <<>>
    /\ conn = "none"
    /\ session = "none"
    /\ app_pc = "idle"
    /\ request = NoRequest
    /\ workers = <<>>
    /\ inbox = <<>>
    /\ ui = enable_buttons(StartUi, mvr_fixtures)
    /\ fetched = AllFetched

\* Up to MaxOps imports through the MVR screen, with the explicit clear.
InitImport == ImportInit /\ MergeQuiet
NextImport ==
    \/ PressOpenScreen
    \/ PressCancel
    \/ PressImportMvr
    \/ PressCleanMvr
    \/ RunImportWorker
    \/ OnMvrParsed
    \/ OnErrors
    \/ OnWorkerStateChanged
SpecImport == InitImport /\ [][NextImport]_vars

\* on_button_pressed, lines 584-629: Configure opens ConfigScreen; the button
\* is never disabled.  The dialog is opened while a press that starts a
\* worker is still possible.
PressConfigure ==
    /\ ui.screen = "main"
    /\ ops < MaxOps
    /\ ui' = [ui EXCEPT !.screen = "config"]
    /\ UNCHANGED <<mvr_classes, mvr_positions, mvr_fixtures, kuma_tags, kuma_fixtures,
                   toggles, checkboxes, remote_tags, remote_monitors, last_op, ops,
                   api_calls, errors, conn, session, app_pc, request, workers, inbox,
                   fetched>>
    /\ UNCHANGED merge_vars

\* ConfigScreen.on_button_pressed, screens.py 164-178, button save, and
\* save_config (app.py 596-627): username and password are stored as typed,
\* both non-empty or not, and enable_buttons is called.
SaveConfig ==
    /\ ui.screen = "config"
    /\ \E configured \in BOOLEAN :
          ui' = enable_buttons([ui EXCEPT !.credentials = configured,
                                         !.screen = "main"], mvr_fixtures)
    /\ UNCHANGED <<mvr_classes, mvr_positions, mvr_fixtures, kuma_tags, kuma_fixtures,
                   toggles, checkboxes, remote_tags, remote_monitors, last_op, ops,
                   api_calls, errors, conn, session, app_pc, request, workers, inbox,
                   fetched>>
    /\ UNCHANGED merge_vars

\* The state after on_mount (lines 490-527), without a configuration file or
\* with one that holds credentials, and then with nothing or one show file
\* imported; nothing fetched, a service that holds nothing.
SessionInit ==
    /\ \E filename \in {"", "stage.mvr"} :
          LET parsed == read_mvr_get_fixtures(filename)
          IN  /\ mvr_fixtures = (IF filename = "" THEN <<>> ELSE parsed.fixtures)
              /\ mvr_classes = (IF filename = "" THEN <<>> ELSE parsed.tags.classes)
              /\ mvr_positions = <<>>
    /\ kuma_tags = <<>>
    /\ kuma_fixtures = <<>>
    /\ remote_tags = <<>>
    /\ remote_monitors = <<>>
    /\ toggles = DefaultToggles
    /\ checkboxes = DefaultToggles
    /\ last_op = "none"
    /\ ops = 0
    /\ api_calls = <<>>
    /\ errors = <<>>
    /\ conn = "none"
    /\ session = "none"
    /\ app_pc = "idle"
    /\ request = NoRequest
    /\ workers = <<>>
    /\ inbox = <<>>
    /\ ui \in {enable_buttons(ComposedUi, mvr_fixtures),
                enable_buttons(StartUi, mvr_fixtures)}
    /\ fetched = NothingFetched

\* A session from its start: up to MaxOps presses that start a worker, the
\* clear, the configuration dialog, the workers and the handling of their
\* messages.
InitSession == SessionInit /\ MergeQuiet
NextSession ==
    \/ PressConfigure
    \/ SaveConfig
    \/ PressOpenScreen
    \/ PressCancel
    \/ PressGet
    \/ PressImportMvr
    \/ PressCleanMvr
    \/ RunImportWorker
    \/ OnMvrParsed
    \/ PressOpenCreateMonitors
    \/ PressCreateMonitors
    \/ RunCreateTagsWorker
    \/ RunCreateMonitorsWorker
    \/ RunGetDataWorker
    \/ OnErrors
    \/ OnMonitorsFetched
    \/ OnTagsFetched
    \/ OnWorkerStateChanged
SpecSession == InitSession /\ [][NextSession]_vars

\* The Tags button of the monitor list (lines 313-317) with its editor:
\* open_edit_kuma_tags_modal, lines 1208-1245, and save_selection, which
\* starts run_api_add_tags_to_monitors with the monitors and the tags chosen
\* from the snapshots.  The buttons are not disabled.
PressSaveTagSelection ==
    /\ ui.screen = "main"
    /\ ops < MaxOps
    /\ ops' = ops + 1
    /\ \E selected_fixture_ids \in SUBSET fixture_keys(kuma_fixtures) \ {{}} :
       \E selected_tags \in EditTagsScreen_selections(
              [tags |-> kuma_tags,
               selected |-> initial_selected_tags(kuma_fixtures, selected_fixture_ids)]) :
          LET chosen == [monitors |-> fixtures_to_update(kuma_fixtures, selected_fixture_ids),
                         tags |-> tags_to_use(kuma_tags, selected_tags),
                         ids |-> selected_fixture_ids, selected |-> selected_tags]
          IN  workers' = start_worker(workers, "run_api_add_tags_to_monitors",
                                      [NoArgs EXCEPT !.request = chosen])
    /\ UNCHANGED <<mvr_classes, mvr_positions, mvr_fixtures, kuma_tags, kuma_fixtures,
                   toggles, checkboxes, remote_tags, remote_monitors, last_op,
                   api_calls, errors, conn, session, app_pc, request, inbox, ui,
                   fetched>>
    /\ UNCHANGED merge_vars

\* An exception leaves a worker of @work(thread=True) (line 993), whose
\* exit_on_error is left at its default: the app ends, and with it its
\* workers and the messages not yet handled.
worker_fails(u) ==
    /\ workers' = <<>>
    /\ inbox' = <<>>
    /\ ui' = [u EXCEPT !.screen = "exited"]
    /\ fetched' = [fetched EXCEPT !.monitors = FALSE, !.tags = FALSE]

\* run_api_add_tags_to_monitors, lines 993-1036, as a thread worker: it
\* scans the snapshot of the tags as it is when it runs.  Its failed calls
\* are printed, not posted; the NameError of line 1032 leaves it.
RunAddTagsToMonitorsWorker ==
    /\ \E i \in 1..Len(workers) :
       \E c \in {"ok", "no_client", "login_failed"} :
       \E fail_at \in (IF c = "ok" THEN 0..MaxReplaceCalls ELSE {0}) :
          LET chosen == workers[i].args.request
              run == replace_tags_loop(chosen.monitors, chosen.tags, kuma_tags, 1,
                         [calls |-> <<>>, raised |-> <<>>,
                          logged_in |-> (c = "ok"), fail_at |-> fail_at])
              after == apply_calls([tags |-> remote_tags, monitors |-> remote_monitors],
                                   run.calls, 1)
          IN  /\ workers[i].name = "run_api_add_tags_to_monitors"
              /\ last_op' = "add_tags_to_monitors"
              /\ conn' = c
              /\ IF c = "no_client"
                 THEN /\ mutating_worker_ends(i, prologue_errors(c))
                      /\ api_calls' = <<>>
                      /\ session' = "none"
                      /\ remote_monitors' = remote_monitors
                      /\ ui' = ui
                 ELSE /\ IF run.raised = <<>>
                         THEN /\ mutating_worker_ends(i, prologue_errors(c))
                              /\ session' = "closed"
                              /\ ui' = ui
                         ELSE /\ worker_fails(ui)
                              /\ session' = "open"
                      /\ api_calls' = run.calls
                      /\ remote_monitors' = after.monitors
    /\ UNCHANGED <<mvr_classes, mvr_positions, mvr_fixtures, kuma_tags, kuma_fixtures,
                   toggles, checkboxes, remote_tags, ops, errors, app_pc, request>>
    /\ UNCHANGED merge_vars

\* The state after a refresh, with credentials configured and one show file
\* imported: the service holds one tag and one monitor that carries it, and
\* the snapshots are those of the refresh.
OperationsInit ==
    /\ mvr_fixtures = read_mvr_get_fixtures("stage.mvr").fixtures
    /\ mvr_classes = read_mvr_get_fixtures("stage.mvr").tags.classes
    /\ mvr_positions = <<>>
    /\ remote_tags = RemoteTags(<<"FOH">>)
    /\ remote_monitors = <<[id |-> 1, name |-> "monitor", description |-> "U1",
                            hostname |-> "10.0.0.5", tags |-> <<[name |-> "FOH"]>>]>>
    /\ kuma_tags = [i \in 1..Len(remote_tags) |-> KumaTag(remote_tags[i])]
    /\ kuma_fixtures = KumaFixtureSnapshot(remote_monitors)
    /\ toggles = DefaultToggles
    /\ checkboxes = DefaultToggles
    /\ last_op = "none"
    /\ ops = 0
    /\ api_calls = <<>>
    /\ errors = <<>>
    /\ conn = "none"
    /\ session = "none"
    /\ app_pc = "idle"
    /\ request = NoRequest
    /\ workers = <<>>
    /\ inbox = <<>>
    /\ ui = enable_buttons(StartUi, mvr_fixtures)
    /\ fetched = AllFetched

\* Up to MaxOps presses that start a remote operation, from each of the
\* buttons that start one.  A started thread worker runs, and a posted
\* message is handled: the worker actions and the handlers are weakly fair,
\* the presses are not.
InitOperations == OperationsInit /\ MergeQuiet
NextOperations ==
    \/ PressOpenCreateMonitors
    \/ PressCreateMonitors
    \/ PressOpenScreen
    \/ PressCancel
    \/ PressDelete
    \/ PressGet
    \/ PressSaveTagSelection
    \/ RunCreateTagsWorker
    \/ RunCreateMonitorsWorker
    \/ RunDeleteTagsWorker
    \/ RunDeleteMonitorsWorker
    \/ RunAddTagsToMonitorsWorker
    \/ RunGetDataWorker
    \/ OnErrors
    \/ OnMonitorsFetched
    \/ OnTagsFetched
    \/ OnWorkerStateChanged
FairOperations ==
    /\ WF_vars(RunCreateTagsWorker)
    /\ WF_vars(RunCreateMonitorsWorker)
    /\ WF_vars(RunDeleteTagsWorker)
    /\ WF_vars(RunDeleteMonitorsWorker)
    /\ WF_vars(RunAddTagsToMonitorsWorker)
    /\ WF_vars(RunGetDataWorker)
    /\ WF_vars(OnErrors)
    /\ WF_vars(OnMonitorsFetched)
    /\ WF_vars(OnTagsFetched)
    /\ WF_vars(OnWorkerStateChanged)
SpecOperations == InitOperations /\ [][NextOperations]_vars /\ FairOperations

----------------------------------------------------------------------------
(* Vocabulary of the merge contract, stated on the fixture data alone.     *)

HasIpv4(fixture) ==
    \E k \in 1..Len(fixture.networks) : fixture.networks[k].ipv4 \notin {NoneVal, ""}

FirstIpv4(fixture) ==
    LET k == CHOOSE k \in 1..Len(fixture.networks) :
                 /\ fixture.networks[k].ipv4 \notin {NoneVal, ""}
                 /\ \A j \in 1..(k - 1) : fixture.networks[j].ipv4 \in {NoneVal, ""}
    IN  fixture.networks[k]

SameDmx(this, that) ==
    /\ this.addresses # <<>>
    /\ that.addresses # <<>>
    /\ this.addresses[1].address = that.addresses[1].address
    /\ this.addresses[1].universe = that.addresses[1].universe

\* The source fixtures that called copy_network on target i.
Writers(i) == {copies[k].src : k \in {j \in 1..Len(copies) : copies[j].dst = i}}

Targets == 1..Len(out_file)
Sources == 1..Len(in_file)

----------------------------------------------------------------------------
(* C1..C9: merger                                                          *)

\* C1: one iteration of the while loop (one source fixture) modifies at most
\* one target fixture, also when several unconsumed targets share the
\* source's first DMX (address, universe) pair.
C1_OneTargetPerSource ==
    [][Cardinality({i \in 1..Len(out_fixtures) : out_fixtures'[i] # out_fixtures[i]}) <= 1]_vars

\* C2: no target fixture receives network data (a copy_network call) from
\* more than one source fixture, nor twice from the same one.
C2_TargetConsumedAtMostOnce ==
    \A i \in Targets :
        Cardinality({k \in 1..Len(copies) : copies[k].dst = i}) <= 1

\* C2 witness: the merge is over, a target was written by one source fixture
\* while a second source fixture with an ipv4 entry matches it as well, by
\* uuid or by DMX address.
C2_Witness ==
    /\ merge_pc = "written"
    /\ \E i \in Targets : \E s1, s2 \in Sources :
          /\ s1 # s2
          /\ Writers(i) = {s1}
          /\ HasIpv4(in_file[s2])
          /\ \/ in_file[s2].uuid = out_file[i].uuid
             \/ SameDmx(in_file[s2], out_file[i])

\* C3: with one source fixture S that equals T1 by a non-empty uuid (T1 the
\* only target with that uuid) and matches a different target T2 by DMX
\* address only, the merge applies the entry to T1 and leaves T2 unmatched
\* and unmodified, whatever the order of T1 and T2.
C3_UuidMatchHasPriority ==
    (merge_pc = "written" /\ Len(in_file) = 1 /\ HasIpv4(in_file[1])
        /\ in_file[1].uuid # "") =>
    \A t1, t2 \in Targets :
        ( /\ t1 # t2
          /\ out_file[t1].uuid = in_file[1].uuid
          /\ \A t \in Targets \ {t1} : out_file[t].uuid # in_file[1].uuid
          /\ SameDmx(in_file[1], out_file[t2]) )
        => ( /\ Writers(t1) = {1}
             /\ Writers(t2) = {}
             /\ out_fixtures[t2] = out_file[t2] )

\* C4: a matched target fixture that already had an IPv4 network entry
\* carries the source fixture's IPv4 entry after the match.
C4_ExistingEntryReplaced ==
    \A k \in 1..Len(copies) :
        HasIpv4(out_file[copies[k].dst]) =>
            FirstIpv4(out_fixtures[copies[k].dst]) = FirstIpv4(in_file[copies[k].src])

\* C5: a target fixture with an empty networks list that is matched by uuid
\* has, from the match on and in the written file, exactly one network
\* entry: the source fixture's first IPv4 entry.
C5_UuidMatchAppendsEntry ==
    /\ \A k \in 1..Len(copies) :
          (copies[k].rule = "uuid" /\ out_file[copies[k].dst].networks = <<>>) =>
              out_fixtures[copies[k].dst].networks = <<FirstIpv4(in_file[copies[k].src])>>
    /\ merge_pc = "written" => merged_file = <<out_fixtures>>

\* C5 witness: the merge is written and a source fixture with a non-empty
\* uuid has matched, by uuid, a target fixture that had no network entry.
C5_Witness ==
    /\ merge_pc = "written"
    /\ \E k \in 1..Len(copies) :
          /\ copies[k].rule = "uuid"
          /\ in_file[copies[k].src].uuid = "A"
          /\ out_file[copies[k].dst].uuid = "A"
          /\ out_file[copies[k].dst].networks = <<>>
          /\ merged_file[1][copies[k].dst].networks = <<Network("10.0.0.5")>>

\* C6: a source fixture with an IPv4 entry whose uuid equals no target uuid
\* and whose first DMX address equals that of a target fixture that no
\* earlier-processed source fixture has matched, matches that target, and
\* the target then carries the source's network entry.
C6_AddressFallback ==
    merge_pc = "written" =>
    \A s \in Sources : \A i \in Targets :
        ( /\ HasIpv4(in_file[s])
          /\ \A t \in Targets : out_file[t].uuid # in_file[s].uuid
          /\ SameDmx(in_file[s], out_file[i])
          /\ \A s2 \in Writers(i) : s2 <= s )
        => ( /\ s \in Writers(i)
             /\ HasIpv4(out_fixtures[i])
             /\ FirstIpv4(out_fixtures[i]) = FirstIpv4(in_file[s]) )

\* C7: the iteration that pops a source fixture without an IPv4 entry
\* (empty networks list, or only entries without ipv4) changes no target
\* fixture and consumes none; no copy_network call ever has such a source.
C7_NoNetworkSkip ==
    [][(merge_pc = "loop" /\ in_fixtures # <<>>
            /\ ~HasIpv4(in_fixtures[Len(in_fixtures)]))
        => (out_fixtures' = out_fixtures /\ done_already' = done_already
            /\ copies' = copies)]_vars

\* C7 witness: a source fixture without an IPv4 entry has been popped while
\* an unconsumed target fixture has its uuid and its first DMX address.
C7_Witness ==
    \E s \in Sources : \E i \in Targets :
        /\ ~HasIpv4(in_file[s])
        /\ Len(in_fixtures) < s
        /\ in_file[s].uuid = out_file[i].uuid
        /\ SameDmx(in_file[s], out_file[i])
        /\ Writers(i) = {}

\* C8: rule 1 matches only fixtures whose uuids are equal and both non-empty.
C8_UuidRuleNeedsNonEmptyUuid ==
    \A k \in 1..Len(copies) :
        copies[k].rule = "uuid" =>
            /\ in_file[copies[k].src].uuid = out_file[copies[k].dst].uuid
            /\ in_file[copies[k].src].uuid # ""
            /\ out_file[copies[k].dst].uuid # ""

\* C9: the merge keeps the number and the order of the target fixtures and
\* each one's uuid, name and DMX addresses; a target fixture matched by no
\* source fixture is unchanged; the written file is the target list.
C9_OnlyNetworksChange ==
    /\ Len(out_fixtures) = Len(out_file)
    /\ \A i \in Targets :
          /\ out_fixtures[i].uuid = out_file[i].uuid
          /\ out_fixtures[i].name = out_file[i].name
          /\ out_fixtures[i].addresses = out_file[i].addresses
          /\ Writers(i) = {} => out_fixtures[i] = out_file[i]
    /\ merge_pc = "written" => merged_file = <<out_fixtures>>

\* C9 witness: the merge is written, one target fixture got a network entry
\* and another one, with different uuid, was matched by no source fixture.
C9_Witness ==
    /\ merge_pc = "written"
    /\ \E i, j \in Targets :
          /\ out_fixtures[i].networks # out_file[i].networks
          /\ out_file[i].addresses # <<>>
          /\ Writers(j) = {}
          /\ out_file[j].uuid # out_file[i].uuid

----------------------------------------------------------------------------
(* C10: run_api_create_tags                                                *)

\* C10: a run of run_api_create_tags that logged in and had no remote call
\* fail has issued an add_tag call for every desired tag (class, position or
\* layer) whose name no tag of the snapshot has (the snapshot's tags expose
\* no uuid), whatever other tags the snapshot contains.
C10_MissingTagsAreCreated ==
    (app_pc = "finished" /\ conn = "ok"
        /\ \A k \in 1..Len(api_calls) : api_calls[k].ok) =>
    \A t \in Range(desired_tags(mvr_classes, mvr_positions, mvr_fixtures)) :
        (\A j \in 1..Len(kuma_tags) : kuma_tags[j].name # t.name) =>
            \E k \in 1..Len(api_calls) :
                api_calls[k].op = "add_tag" /\ api_calls[k].name = t.name

----------------------------------------------------------------------------
(* C11: run_api_create_tags, duplicate desired names                       *)

\* C11: within one run of run_api_create_tags no two add_tag calls carry the
\* same tag name, also when the desired collections hold a name twice.
C11_OneCreationPerName ==
    app_pc = "finished" =>
        \A k1, k2 \in 1..Len(api_calls) :
            (/\ k1 # k2
             /\ api_calls[k1].op = "add_tag"
             /\ api_calls[k2].op = "add_tag")
            => api_calls[k1].name # api_calls[k2].name

----------------------------------------------------------------------------
(* C12..: run_api_create_monitors                                          *)

\* The desired fixture a call was made for.
DesiredAt(at) == mvr_fixtures[at[1]].fixtures[at[2]]

\* The calls of an operation that were issued for a desired fixture.
AddMonitorCalls(calls) == {k \in 1..Len(calls) : calls[k].op = "add_monitor"}
AttachCalls(calls) == {k \in 1..Len(calls) : calls[k].op = "add_monitor_tag"}

\* C12: within one run of run_api_create_monitors no two add_monitor calls
\* are made for fixtures with the same uuid, also when the desired fixtures
\* hold a uuid twice.
C12_OneCreationPerUuid ==
    app_pc = "finished" =>
        \A k1, k2 \in AddMonitorCalls(api_calls) :
            k1 # k2 =>
                DesiredAt(api_calls[k1].at).uuid # DesiredAt(api_calls[k2].at).uuid

\* The last worker was a refresh whose session logged in, and it has
\* replaced the snapshot of the monitors (of the tags).
Refreshed == app_pc = "idle" /\ ops > 0 /\ conn = "ok"
MonitorsRefetched == Refreshed /\ "get_monitors failed" \notin Range(errors)
TagsRefetched == Refreshed /\ "get_tags failed" \notin Range(errors)

\* The desired fixtures, by place.
DesiredPlaces ==
    UNION {{<<li, fi>> : fi \in 1..Len(mvr_fixtures[li].fixtures)} :
              li \in 1..Len(mvr_fixtures)}

HasNonNullIpv4(fixture) ==
    \E k \in 1..Len(fixture.networks) : fixture.networks[k].ipv4 # NoneVal

\* C13: when run_api_create_monitors has created a monitor for a fixture
\* with uuid U and the monitors have been fetched again, the next run of
\* run_api_create_monitors makes no add_monitor call for a fixture with
\* uuid U.
C13_IdentityRoundTrip ==
    [][(/\ last_op = "create_monitors"
        /\ MonitorsRefetched
        /\ last_op' = "create_monitors"
        /\ ops' = ops + 1)
       => \A k \in AddMonitorCalls(api_calls) :
              api_calls[k].ok =>
                  \A k2 \in AddMonitorCalls(api_calls') :
                      DesiredAt(api_calls'[k2].at).uuid
                          # DesiredAt(api_calls[k].at).uuid]_vars

\* C13 witness: a second run of run_api_create_monitors has ended without
\* any add_monitor call although a desired fixture has an ipv4: the
\* snapshot holds the monitor that the first run created for its uuid.
C13_Witness ==
    /\ app_pc = "finished"
    /\ last_op = "create_monitors"
    /\ ops > 1
    /\ conn = "ok"
    /\ errors = <<>>
    /\ AddMonitorCalls(api_calls) = {}
    /\ \E at \in DesiredPlaces :
          /\ HasNonNullIpv4(DesiredAt(at))
          /\ \E i \in 1..Len(kuma_fixtures) :
                kuma_fixtures[i].uuid = DesiredAt(at).uuid

\* C14: when run_api_create_tags has ended without an error and the tags
\* have been fetched again, the next run of run_api_create_tags, with the
\* same show data, makes no add_tag call.
C14_CreateTagsIdempotent ==
    [][(/\ last_op = "create_tags"
        /\ TagsRefetched
        /\ \A e \in Range(errors) : e = "get_monitors failed"
        /\ last_op' = "create_tags"
        /\ ops' = ops + 1)
       => \A k \in 1..Len(api_calls') : api_calls'[k].op # "add_tag"]_vars

\* C14 witness: a second run of run_api_create_tags has ended without any
\* call, against a snapshot that holds the tags an earlier run created.
C14_Witness ==
    /\ app_pc = "finished"
    /\ last_op = "create_tags"
    /\ ops > 1
    /\ conn = "ok"
    /\ api_calls = <<>>
    /\ kuma_tags # <<>>
    /\ \A t \in Range(desired_tags(mvr_classes, mvr_positions, mvr_fixtures)) :
          \E j \in 1..Len(kuma_tags) : kuma_tags[j].name = t.name

\* The name of the snapshot's tag with this id.
KumaTagName(id) ==
    LET j == CHOOSE j \in 1..Len(kuma_tags) : kuma_tags[j].id = id
    IN  kuma_tags[j].name

\* A desired tag of the collection has this name and this uuid as its key.
NamesKey(collection, name, key) ==
    /\ key # NoneVal
    /\ \E i \in 1..Len(collection) :
          collection[i].name = name /\ collection[i].uuid = key

\* C15: in a run of run_api_create_monitors in which no call failed, every
\* add_monitor_tag call of the position (class) pass is for a tag of the
\* snapshot whose name is the name of a desired position (class) whose uuid
\* is the fixture's position (classing); a fixture without position
\* (classing) gets no call from that pass.
C15_PositionAndClassSelection ==
    (app_pc = "finished" /\ \A k \in 1..Len(api_calls) : api_calls[k].ok) =>
    \A k \in AttachCalls(api_calls) :
        LET call == api_calls[k]
            fixture == DesiredAt(call.at)
        IN  /\ call.pass = "position" =>
                   NamesKey(mvr_positions, KumaTagName(call.tag_id), fixture.position)
            /\ call.pass = "class" =>
                   NamesKey(mvr_classes, KumaTagName(call.tag_id), fixture.classing)

\* C16: a run of run_api_create_monitors makes no add_monitor_tag call for
\* a tag name that the monitor has in the snapshot the run started from, or
\* that an earlier call for the same desired fixture was made for.
C16_NoDuplicateAttachment ==
    [][(last_op' = "create_monitors" /\ ops' = ops + 1) =>
        \A k \in AttachCalls(api_calls') :
            LET call == api_calls'[k]
                name == KumaTagName(call.tag_id)
            IN  /\ \A i \in 1..Len(kuma_fixtures) :
                       kuma_fixtures[i].id = call.monitor_id =>
                           name \notin Range(kuma_fixtures[i].tags)
                /\ \A k0 \in AttachCalls(api_calls') :
                       (k0 < k /\ api_calls'[k0].at = call.at) =>
                           KumaTagName(api_calls'[k0].tag_id) # name]_vars

FirstNonNullIpv4(fixture) ==
    LET k == CHOOSE k \in 1..Len(fixture.networks) :
                 /\ fixture.networks[k].ipv4 # NoneVal
                 /\ \A j \in 1..(k - 1) : fixture.networks[j].ipv4 = NoneVal
    IN  fixture.networks[k].ipv4

\* C17: run_api_create_monitors makes no add_monitor and no add_monitor_tag
\* call for a desired fixture without a network entry whose ipv4 is not
\* null; an add_monitor call for any other fixture has as hostname the ipv4
\* of the fixture's first network entry whose ipv4 is not null.
C17_TargetIsFirstIpv4 ==
    \A k \in AddMonitorCalls(api_calls) \cup AttachCalls(api_calls) :
        LET fixture == DesiredAt(api_calls[k].at)
        IN  /\ HasNonNullIpv4(fixture)
            /\ api_calls[k].op = "add_monitor" =>
                   api_calls[k].hostname = FirstNonNullIpv4(fixture)

\* C17 witness: a run has passed a fixture without ipv4 and then created the
\* monitor of a fixture whose first network entry has no ipv4 and which has
\* two entries with one.
C17_Witness ==
    /\ app_pc = "finished"
    /\ last_op = "create_monitors"
    /\ \E at1, at2 \in DesiredPlaces :
          /\ at1[1] = at2[1] /\ at1[2] < at2[2]
          /\ ~HasNonNullIpv4(DesiredAt(at1))
          /\ DesiredAt(at2).networks[1].ipv4 = NoneVal
          /\ Cardinality({j \in 1..Len(DesiredAt(at2).networks) :
                             DesiredAt(at2).networks[j].ipv4 # NoneVal}) > 1
          /\ \E k \in AddMonitorCalls(api_calls) :
                api_calls[k].at = at2 /\ api_calls[k].ok

\* The calls that remove something from the service.
DeleteOps == {"delete_tag", "delete_monitor", "delete_monitor_tag"}

\* C18: run_api_create_tags and run_api_create_monitors make no delete_tag,
\* delete_monitor or delete_monitor_tag call.
C18_CreateNeverDeletes ==
    last_op \in {"create_tags", "create_monitors"} =>
        \A k \in 1..Len(api_calls) : api_calls[k].op \notin DeleteOps

\* C18 witness: after a run of run_api_create_tags and a refresh, a run of
\* run_api_create_monitors has created a monitor and attached a tag to it.
C18_Witness ==
    /\ app_pc = "finished"
    /\ last_op = "create_monitors"
    /\ ops > 1
    /\ \E k \in AddMonitorCalls(api_calls) : api_calls[k].ok
    /\ \E k \in AttachCalls(api_calls) : api_calls[k].ok
    /\ remote_tags # <<>>

----------------------------------------------------------------------------
(* C19, C20: run_api_delete_tags, run_api_delete_monitors                  *)

\* The names of the desired tags and the uuids of the desired fixtures.
DesiredTagNames ==
    {mvr_classes[i].name : i \in 1..Len(mvr_classes)}
        \cup {mvr_positions[i].name : i \in 1..Len(mvr_positions)}
        \cup {mvr_fixtures[i].layer.name : i \in 1..Len(mvr_fixtures)}
DesiredUuids == {DesiredAt(at).uuid : at \in DesiredPlaces}

\* The delete calls of the last operation for one id.
DeleteTagCalls(id) ==
    {k \in 1..Len(api_calls) :
        api_calls[k].op = "delete_tag" /\ api_calls[k].tag_id = id}
DeleteMonitorCalls(id) ==
    {k \in 1..Len(api_calls) :
        api_calls[k].op = "delete_monitor" /\ api_calls[k].monitor_id = id}

\* The last operation logged in and posted no error.
EndedWell == app_pc = "finished" /\ conn = "ok" /\ errors = <<>>

\* C19: run_api_delete_tags(mvr=True) makes a delete_tag call only for tags
\* of the snapshot whose name is the name of a desired tag (class, position
\* or layer), and, when it ends without error, exactly one for each of them.
C19_DeleteReferencedTags ==
    (app_pc = "finished" /\ last_op = "delete_mvr_tags") =>
        /\ \A k \in 1..Len(api_calls) : api_calls[k].op = "delete_tag"
        /\ \A j \in 1..Len(kuma_tags) :
              /\ kuma_tags[j].name \notin DesiredTagNames =>
                     DeleteTagCalls(kuma_tags[j].id) = {}
              /\ (EndedWell /\ kuma_tags[j].name \in DesiredTagNames) =>
                     Cardinality(DeleteTagCalls(kuma_tags[j].id)) = 1

\* C19 witness: desired tags Stage and FOH, snapshot Stage, FOH and
\* Unrelated; the run has ended without error with two calls.
C19_Witness ==
    /\ last_op = "delete_mvr_tags"
    /\ EndedWell
    /\ DesiredTagNames = {"Stage", "FOH"}
    /\ {kuma_tags[j].name : j \in 1..Len(kuma_tags)} = {"Stage", "FOH", "Unrelated"}
    /\ Len(api_calls) = 2

\* C20: run_api_delete_monitors(mvr=True) makes a delete_monitor call only
\* for monitors of the snapshot whose uuid is the uuid of a desired fixture
\* of some layer, never two for one monitor, and, when it ends without
\* error, one for each of them; with mvr=False a run that ends without error
\* has made exactly one call for every monitor of the snapshot.
C20_DeleteReferencedMonitors ==
    (app_pc = "finished" /\ last_op \in {"delete_mvr_monitors", "delete_monitors"}) =>
        /\ \A k \in 1..Len(api_calls) : api_calls[k].op = "delete_monitor"
        /\ \A i \in 1..Len(kuma_fixtures) :
              LET n == Cardinality(DeleteMonitorCalls(kuma_fixtures[i].id))
                  wanted == \/ last_op = "delete_monitors"
                            \/ kuma_fixtures[i].uuid \in DesiredUuids
              IN  /\ n <= 1
                  /\ ~wanted => n = 0
                  /\ (EndedWell /\ wanted) => n = 1

\* C20 witness: a monitor whose uuid is that of a fixture of the second
\* layer only has been deleted, and a monitor of no desired fixture has been
\* left alone.
C20_Witness ==
    /\ last_op = "delete_mvr_monitors"
    /\ EndedWell
    /\ Len(mvr_fixtures) > 1
    /\ \E i, j \in 1..Len(kuma_fixtures) :
          /\ kuma_fixtures[i].uuid \in DesiredUuids
          /\ \A fi \in 1..Len(mvr_fixtures[1].fixtures) :
                mvr_fixtures[1].fixtures[fi].uuid # kuma_fixtures[i].uuid
          /\ DeleteMonitorCalls(kuma_fixtures[i].id) # {}
          /\ kuma_fixtures[j].uuid \notin DesiredUuids
          /\ DeleteMonitorCalls(kuma_fixtures[j].id) = {}

----------------------------------------------------------------------------
(* C21..C30: tag replacement, failures, workers                            *)

\* The names of the tags of the snapshot that the calls of kind op of the
\* last operation name for the monitor with this id.
CallNames(op, monitor_id) ==
    {kuma_tags[j].name :
        j \in {j \in 1..Len(kuma_tags) :
                  \E k \in 1..Len(api_calls) :
                      /\ api_calls[k].op = op
                      /\ api_calls[k].monitor_id = monitor_id
                      /\ api_calls[k].tag_id = kuma_tags[j].id}}

\* The tag replacement has ended and the service failed none of its calls.
ReplacedWell ==
    /\ last_op = "add_tags_to_monitors"
    /\ app_pc = "finished"
    /\ conn = "ok"
    /\ \A k \in 1..Len(api_calls) : api_calls[k].ok

\* C21: after a tag replacement none of whose remote calls failed, each
\* selected monitor got attachment calls for exactly the desired tag names it
\* did not have and detachment calls for exactly the tag names it had that
\* are not desired; a monitor that was not selected got no call.
C21_ReplaceAttachesAndDetaches ==
    ReplacedWell =>
        \A i \in 1..Len(kuma_fixtures) :
            LET monitor == kuma_fixtures[i]
                current == Range(monitor.tags)
            IN  IF monitor.uuid \in request.ids
                THEN /\ CallNames("add_monitor_tag", monitor.id) = request.selected \ current
                     /\ CallNames("delete_monitor_tag", monitor.id) = current \ request.selected
                ELSE \A k \in 1..Len(api_calls) : api_calls[k].monitor_id # monitor.id

\* The calls of the last operation that create, attach, detach or delete.
MutationCalls ==
    {k \in 1..Len(api_calls) :
        api_calls[k].op \in {"add_tag", "add_monitor", "add_monitor_tag",
                             "delete_monitor_tag", "delete_tag", "delete_monitor"}}

\* C22: an operation whose client construction or login failed has issued
\* no create, attach, detach or delete call.
C22_ConnectionFailureIssuesNoCall ==
    (app_pc = "finished" /\ conn \in {"no_client", "login_failed"}) => MutationCalls = {}

\* C23: every operation that obtained a client object has called disconnect
\* on it when its worker ends, whether login failed or a remote call raised.
C23_DisconnectOnEveryPath ==
    (app_pc = "finished" /\ conn # "no_client") => session = "closed"

\* C24: a failed delete call does not stop a delete operation: when the
\* worker of an operation that logged in has ended, every tag (monitor) of
\* the snapshot that the operation's scope covers has got its delete call,
\* whether or not an earlier call of the run failed.
C24_FailedCallDoesNotStop ==
    (app_pc = "finished" /\ conn = "ok") =>
        /\ last_op \in {"delete_tags", "delete_mvr_tags"} =>
              \A j \in 1..Len(kuma_tags) :
                  (last_op = "delete_tags" \/ kuma_tags[j].name \in DesiredTagNames)
                      => DeleteTagCalls(kuma_tags[j].id) # {}
        /\ last_op \in {"delete_monitors", "delete_mvr_monitors"} =>
              \A j \in 1..Len(kuma_fixtures) :
                  (last_op = "delete_monitors" \/ kuma_fixtures[j].uuid \in DesiredUuids)
                      => DeleteMonitorCalls(kuma_fixtures[j].id) # {}

\* The calls run_api_create_monitors makes from the present snapshots when
\* the service fails none of them.
NoFailureRun ==
    create_monitors_loop(
        [kuma_tags |-> kuma_tags, classes |-> mvr_classes, positions |-> mvr_positions,
         toggles |-> checkboxes, logged_in |-> TRUE, fail_at |-> 0,
         first_id |-> next_id(remote_monitors)],
        mvr_fixtures, 1, 1,
        [calls |-> <<>>, fixtures |-> kuma_fixtures, raised |-> <<>>]).calls

\* The attachment calls among these calls that the service failed.
FailedAttachCalls(calls) == {k \in AttachCalls(calls) : ~calls[k].ok}

\* C25: when an add_monitor_tag call of run_api_create_monitors fails (and
\* no add_monitor call does), the run still makes every attachment call that
\* it makes when no call fails: those of the other categories for the same
\* fixture and those of the fixtures that follow.
C25_AttachFailureDoesNotStopOthers ==
    [][(/\ ops' = ops + 1
        /\ last_op' = "create_monitors"
        /\ conn' = "ok"
        /\ FailedAttachCalls(api_calls') # {}
        /\ \A k \in AddMonitorCalls(api_calls') : api_calls'[k].ok)
       => LET expected == NoFailureRun
          IN  \A k \in AttachCalls(expected) :
                  \E k2 \in AttachCalls(api_calls') :
                      /\ api_calls'[k2].at = expected[k].at
                      /\ api_calls'[k2].pass = expected[k].pass
                      /\ api_calls'[k2].tag_id = expected[k].tag_id
                      /\ api_calls'[k2].monitor_id = expected[k].monitor_id]_vars

\* C25 witness: run_api_create_monitors has ended after an add_monitor_tag
\* call failed in one pass for a fixture; a later pass made an attachment
\* call for the same fixture and a later fixture got a call too.
C25_Witness ==
    /\ app_pc = "finished"
    /\ last_op = "create_monitors"
    /\ conn = "ok"
    /\ \E k \in FailedAttachCalls(api_calls) :
          /\ \E k2 \in AttachCalls(api_calls) :
                /\ k2 > k
                /\ api_calls[k2].at = api_calls[k].at
                /\ api_calls[k2].pass # api_calls[k].pass
          /\ \E k3 \in (k + 1)..Len(api_calls) : api_calls[k3].at # api_calls[k].at

\* C26: an operation posts at most one Errors message, whatever fails in it.
C26_OneErrorPerOperation ==
    app_pc = "finished" => Len(errors) <= 1

\* The desired state: the accumulated fixtures, classes and positions.
DesiredState == <<mvr_fixtures, mvr_classes, mvr_positions>>

\* The import worker i ends in this step, and its file does not parse.
FailedImportEnds(i) ==
    /\ workers[i].name = "run_import_mvr"
    /\ read_mvr_get_fixtures(workers[i].args.filename).raised # <<>>
    /\ workers' = Remove(workers, i)

\* The messages posted in this step.
PostedNow == SubSeq(inbox', Len(inbox) + 1, Len(inbox'))

\* C30: a parse failure aborts only the import of that file.  The worker of
\* a file that does not parse leaves the desired fixtures, classes and
\* positions as they were and posts exactly one error and no parsed data;
\* and the desired state only ever changes by the handling of parsed data or
\* by the explicit clear.
C30_ParseFailureAbortsOnlyThatImport ==
    [][/\ \A i \in 1..Len(workers) :
             FailedImportEnds(i) =>
                 /\ DesiredState' = DesiredState
                 /\ Cardinality({k \in 1..Len(PostedNow) :
                                    PostedNow[k].type = "Errors"}) = 1
                 /\ \A k \in 1..Len(PostedNow) : PostedNow[k].type # "MvrParsed"
       /\ DesiredState' # DesiredState =>
             \/ inbox # <<>> /\ Head(inbox).type = "MvrParsed" /\ inbox' = Tail(inbox)
             \/ ui.screen = "mvr" /\ DesiredState' = <<<<>>, <<>>, <<>>>>
      ]_vars

\* An import has failed while fixtures of an earlier import were held: its
\* error waits to be shown, and the fixtures are still there.
C30_Witness ==
    /\ mvr_fixtures # <<>>
    /\ \E k \in 1..Len(inbox) : inbox[k].type = "Errors" /\ inbox[k].text = "parse failed"

\* C28: at most one remote operation is in flight at any time.
C28_OneRemoteOperationInFlight ==
    Cardinality({i \in 1..Len(workers) : workers[i].name # "run_import_mvr"}) <= 1

\* A worker of this name is started in this step.
WorkerStarts(name) ==
    /\ Len(workers') = Len(workers) + 1
    /\ workers'[Len(workers')].name = name

\* C27: whenever run_api_create_monitors is started, no run_api_create_tags
\* is still in flight and the snapshot of the tags comes from a fetch made
\* after the last worker that changed the service ended.
C27_MonitorsStartAfterTagsRefreshed ==
    [][WorkerStarts("run_api_create_monitors") =>
          /\ \A i \in 1..Len(workers) : workers[i].name # "run_api_create_tags"
          /\ fetched.tags
      ]_vars

\* The worker i, one that changes the service, runs in this step: it
\* decides on the snapshots as they are.
MutatingWorkerRuns(i) ==
    /\ workers[i].name \in MutatingWorkers
    /\ workers' = Remove(workers, i)
    /\ Len(inbox') > 0
    /\ inbox'[Len(inbox')] = WorkerFinished(workers[i].name)

\* C29: when a worker that changes the service decides, both snapshots come
\* from a fetch made after the last such worker ended.
C29_RefetchedBeforeNextDecision ==
    [][\A i \in 1..Len(workers) :
          MutatingWorkerRuns(i) => fetched.monitors /\ fetched.tags
      ]_vars

\* What the successful import of a file delivers, as the three lists of the
\* desired state.
Delivered(filename) ==
    LET parsed == read_mvr_get_fixtures(filename)
    IN  <<parsed.fixtures, parsed.tags.classes, parsed.tags.positions>>

\* The parsed data of an import are handled in this step.
ImportDelivers ==
    /\ inbox # <<>>
    /\ Head(inbox).type = "MvrParsed"
    /\ inbox' = Tail(inbox)

\* C31: the desired state grows only by accumulation and is reset only by
\* clear.  Every step leaves the desired fixtures, classes and positions as
\* they are, or appends to each what one successful import delivered (in
\* the order in which the parsed data arrive), or is the clear and leaves
\* all three empty; and every arrival of parsed data appends.
C31_DesiredStateAccumulates ==
    [][/\ ImportDelivers =>
             LET d == Delivered(Head(inbox).text)
             IN  DesiredState' = <<mvr_fixtures \o d[1], mvr_classes \o d[2],
                                   mvr_positions \o d[3]>>
       /\ (ui.screen = "mvr" /\ ui'.screen = "main" /\ workers' = workers) =>
             \/ DesiredState' = <<<<>>, <<>>, <<>>>>
             \/ DesiredState' = DesiredState /\ ui' = [ui EXCEPT !.screen = "main"]
       /\ (~ImportDelivers /\ ~(ui.screen = "mvr" /\ ui'.screen = "main")) =>
             DesiredState' = DesiredState
      ]_vars

\* Two imports have delivered one after the other: the desired state is
\* what stage.mvr delivered followed by what foh.mvr delivered.
C31_Witness ==
    /\ DesiredState = <<Delivered("stage.mvr")[1] \o Delivered("foh.mvr")[1],
                        Delivered("stage.mvr")[2] \o Delivered("foh.mvr")[2],
                        Delivered("stage.mvr")[3] \o Delivered("foh.mvr")[3]>>
    /\ ops > 0

\* The flag of the options that belongs to the pass a call was made by.
FlagOf(call, options) ==
    IF call.pass = "layer" THEN options.layers
    ELSE IF call.pass = "position" THEN options.positions
    ELSE options.classes

\* C32: the tag categories are gated by their option flags.  After a run of
\* run_api_create_monitors, every attachment call comes from a pass whose
\* flag was on in the data of the run.
C32_CategoriesGatedByFlags ==
    (app_pc = "finished" /\ last_op = "create_monitors") =>
        \A k \in AttachCalls(api_calls) : FlagOf(api_calls[k], toggles)

\* A run with the layers flag off has created a monitor for a fixture whose
\* layer name is the name of a tag of the snapshot, and has attached a tag
\* by another pass.
C32_Witness ==
    /\ app_pc = "finished"
    /\ last_op = "create_monitors"
    /\ ~toggles.layers
    /\ AttachCalls(api_calls) # {}
    /\ \E k \in 1..Len(api_calls) :
          /\ api_calls[k].op = "add_monitor"
          /\ api_calls[k].ok
          /\ \E j \in 1..Len(kuma_tags) :
                kuma_tags[j].name = mvr_fixtures[api_calls[k].at[1]].layer.name

\* The tag of the snapshot an attachment call is for matches the category
\* value of the call's fixture, as the pass of the call tests it (lines 920,
\* 942-943, 965-966).
TargetMatches(call) ==
    LET j == CHOOSE j \in 1..Len(kuma_tags) : kuma_tags[j].id = call.tag_id
    IN  pass_selects(call.pass, kuma_tags[j],
                     [layer |-> mvr_fixtures[call.at[1]], mvr_fixture |-> DesiredAt(call.at),
                      positions |-> mvr_positions, classes |-> mvr_classes])

\* C34: every attachment call of a pass of run_api_create_monitors is for a
\* tag that the pass selects for the fixture, also after a failed call.
C34_AttachmentTargetsSelectedTag ==
    (app_pc = "finished" /\ last_op = "create_monitors") =>
        \A k \in AttachCalls(api_calls) : TargetMatches(api_calls[k])

\* C35: consuming one target fixture never makes a different target fixture
\* ineligible.  A target that the loop skips as consumed (its uuid is in
\* done_already) has itself been matched by a source fixture.
C35_ConsumingOneTargetKeepsOthers ==
    \A i \in Targets :
        (\E k \in 1..Len(done_already) : done_already[k] = out_fixtures[i].uuid)
            => Writers(i) # {}

\* A source fixture and a target fixture of the files match by one of the two
\* rules of the merge: the same uuid, or the same first DMX address.
RuleMatches(s, i) ==
    in_file[s].uuid = out_file[i].uuid \/ SameDmx(in_file[s], out_file[i])

\* The pairs of source fixtures with IPv4 entries that could both match
\* target i, s1 before s2 in the flattened source list.
Rivals(i) ==
    {p \in Sources \X Sources :
        /\ p[1] < p[2]
        /\ HasIpv4(in_file[p[1]]) /\ HasIpv4(in_file[p[2]])
        /\ RuleMatches(p[1], i) /\ RuleMatches(p[2], i)}

\* C36 as stated: when two source fixtures with IPv4 entries could both
\* match a target, the target is written by the one that comes later in the
\* flattened source list and by no other.
C36_LaterSourceWins ==
    merge_pc = "written" =>
        \A i \in Targets : \A p \in Rivals(i) : Writers(i) = {p[2]}

\* C36 amended: the source fixtures are consumed in reverse flattening
\* order, and the earlier of two source fixtures that could both match a
\* target writes it only when the later one was matched by uuid to a target
\* that comes before it in the target list.
C36_LaterSourceWinsUnlessMatchedBefore ==
    /\ \A k, l \in 1..Len(copies) : k < l => copies[k].src >= copies[l].src
    /\ \A i \in Targets : \A s1 \in Writers(i) : \A s2 \in Sources :
          <<s1, s2>> \in Rivals(i) =>
              \E k \in 1..Len(copies) :
                  /\ copies[k].src = s2
                  /\ copies[k].dst < i
                  /\ copies[k].rule = "uuid"

\* The merge is over; two source fixtures with IPv4 entries could both match
\* a target, and the later of the two has written it.
C36_Witness ==
    /\ merge_pc = "written"
    /\ \E i \in Targets : \E p \in Rivals(i) :
          /\ Writers(i) = {p[2]}
          /\ in_file[p[1]] # in_file[p[2]]

\* C38: the Add Monitors button is enabled only if a username and a
\* password are configured and the desired fixture list is not empty.
C38_AddMonitorsEnabledOnlyWhenReady ==
    ~ui.open_create_monitors => (ui.credentials /\ mvr_fixtures # <<>>)

\* The button is enabled again after the buttons were disabled for the tag
\* pass: every worker has ended and every message is handled.
C38_Witness ==
    /\ ~ui.open_create_monitors
    /\ ops = MaxOps
    /\ last_op = "create_tags"
    /\ workers = <<>>
    /\ inbox = <<>>


\* C33: run_api_create_tags and run_api_create_monitors are started only
\* after a fetch of the session has installed a snapshot of the monitors and
\* a snapshot of the tags.
C33_CreationStartsAfterFetch ==
    [][(WorkerStarts("run_api_create_tags") \/ WorkerStarts("run_api_create_monitors"))
           => fetched.installed = {"monitors", "tags"}
      ]_vars


\* A worker with this name is started and has not ended.
InFlight(name) == \E i \in 1..Len(workers) : workers[i].name = name

\* The end of a worker with this name is posted to the app.
Signalled(name) ==
    \E k \in 1..Len(inbox) :
       inbox[k].type = "WorkerStateChanged" /\ inbox[k].text = name

\* The workers of the remote operations.
RemoteWorkers == MutatingWorkers \cup {"run_api_get_data"}

\* The trigger buttons are enabled, Add Monitors where show data are there.
ButtonsEnabled ==
    /\ ~ui.get_button
    /\ ~ui.delete_screen
    /\ mvr_fixtures # <<>> => ~ui.open_create_monitors

\* C37: every started remote operation gives control back: its worker
\* ends and its end reaches the app, a fetch is started on the end of a
\* worker that changes the service, and buttons that are disabled while
\* credentials are configured are enabled again.
C37_OperationGivesControlBack ==
    /\ \A name \in RemoteWorkers : InFlight(name) ~> Signalled(name)
    /\ (\E name \in MutatingWorkers : Signalled(name)) ~> InFlight("run_api_get_data")
    /\ (ui.credentials /\ ~ButtonsEnabled) ~> (ButtonsEnabled \/ ~ui.credentials)

====
